---- MODULE Spec2Model ----
(***************************************************************************)
(* Verification model of the cote bent-pipe constellation simulator:       *)
(*   - the per-satellite Sensor buffer with overflow accounting            *)
(*     (software/sensor/source/Sensor.cpp);                                *)
(*   - the ground-station link scheduling policies                         *)
(*     (examples/bent-pipe-constellation/source/*Policy.hpp).              *)
(* Each subsystem has its own specification over its own variables; the    *)
(* variables of the other subsystem stay at their initial values.          *)
(***************************************************************************)
EXTENDS Integers, Sequences, FiniteSets, TLC

(***************************************************************************)
(* Bounds of the model.                                                    *)
(***************************************************************************)
\* Largest value of the unsigned counters of the model; it stands for
\* UINT64_MAX, which TLC's integers cannot hold.  All unsigned arithmetic of
\* the sensor wraps modulo MaxWord + 1.
MaxWord == 15
\* Number of captures (updates that consume a latched trigger) explored.
MaxCaptures == 3
\* Last step explored in a run of the small constellation.
MaxStep == 31
\* Last step explored in a run of three satellites and one ground station.
MaxStepFull == 3
\* Last step explored in a run of four satellites and one ground station.
MaxStepWide == 2
\* Last step explored in a run of a spacing strategy.
MaxSpacingStep == 7
\* Largest distance of the lead satellite told apart (larger ones count as this).
MaxDistanceKm == 5
\* Last step explored in a run with more than one ground station.
MaxStepShared == 1
\* Largest bitsBuffered value a policy is shown.
MaxBuf == 2

\* Last value of the simulation clock of a moving sensor.
MaxTime == 1

(***************************************************************************)
(* Sensor state (Sensor.hpp fields) and observation variables.             *)
(***************************************************************************)
VARIABLES
  senseTrigger,       \* bool: latched request to capture
  bitsBuffered,       \* uint64: queued bits
  bitsPerSense,       \* uint64: bits produced per capture
  maxBufferCapacity,  \* uint64: cap, UINT64_MAX by default
  totalBitsLost,      \* uint64: cumulative bits lost to overflow
  sensorOp,           \* name of the last Sensor operation called
  sensorArg,          \* argument of the last call when it was drainBuffer, else 0
  sensorRet,          \* value returned by the last call when it was drainBuffer, else 0
  overflowEvents,     \* number of "buffer-overflow-sat-<id>" measurements logged
  numCaptures,        \* number of update calls that consumed a latched trigger
  sumSensed,          \* sum of bitsPerSense over those update calls (unbounded integer)
  sumDrained,         \* sum of the values returned by drainBuffer (unbounded integer)
  sumExcess,          \* sum over overflowing updates of maxBufferCapacity - bitsBuffered
  wrapped,            \* TRUE once an unsigned addition of update has wrapped
  capSetLate,         \* TRUE once setMaxBufferCapacity was called after a capture
  relatched,          \* TRUE when triggerSense was called on the latched sensor
                      \* for the latch now set or, when clear, last consumed
  eciPosn,            \* position of the sensor, as setECIPosn left it
  globalTime,         \* the simulation clock globalTime points to
  prevSensePosn,      \* position at the previous capture
  prevSenseDateTime   \* date and time of the previous capture

referenceVars == <<eciPosn, globalTime, prevSensePosn, prevSenseDateTime>>

sensorVars == <<senseTrigger, bitsBuffered, bitsPerSense, maxBufferCapacity,
                totalBitsLost, sensorOp, sensorArg, sensorRet, overflowEvents,
                numCaptures,
                sumSensed, sumDrained, sumExcess, wrapped, capSetLate,
                relatched, referenceVars>>

(***************************************************************************)
(* Link scheduling: the step loop's state, the state the policy objects    *)
(* keep per ground station, and the record of the last decision call.      *)
(***************************************************************************)
VARIABLES
  policyName,                 \* policy name given on the command line
  policy,                     \* policy object createPolicy returned for it
  numSats,                    \* number of satellites of the run
  numGnds,                    \* number of ground stations of the run
  stepCount,                  \* the step loop's counter
  turn,                       \* ground station that decides next in this step
  gndId2CurrSat,              \* current connection of each ground station, or NULL
  gndId2SatQueue,             \* FIFOPolicy / RoundRobinPolicy: queue of satellite ids
  gndId2SatInQueue,           \* FIFOPolicy / RoundRobinPolicy: tracking set
  gndId2ConnectionStartStep,  \* RoundRobinPolicy / RandomPolicy: step of last selection
  callGnd,                    \* last call: groundStationId (NULL before the first call)
  callVisible,                \* last call: ids of visibleSats
  callBuf,                    \* last call: getBitsBuffered() of each visible satellite
  callCurrent,                \* last call: currentSat
  callStep,                   \* last call: stepCount
  callRet,                    \* last call: returned satellite, or NULL
  prevVisible,                \* per ground station: visibleSats of its previous call
  waiting,                    \* per ground station: satellites that entered view with
                              \*   data and have stayed in view with data, unselected
  arrivedBefore,              \* per ground station: pairs <<x, y>> of waiting satellites
                              \*   where x entered view at an earlier call than y
  steadyVisible,              \* per ground station: the visible set every call so far has
                              \*   shown, with data on all of it; {} when there is none
  selectedAt,                 \* per ground station: step at which its connection last
                              \*   changed to another satellite
  twinStartStep,              \* second policy instance: gndId2ConnectionStartStep
  twinRet,                    \* second policy instance: satellite its last call returned
  rngInSync,                  \* TRUE while the rng of both RandomPolicy instances is in
                              \*   the same state (same seed, same draws so far)
  twinQueue,                  \* second FIFOPolicy / RoundRobinPolicy instance: the
                              \*   queue of the one ground station it is called for
  twinInQueue                 \* second FIFOPolicy / RoundRobinPolicy instance: the
                              \*   tracking set of that ground station

linkVars == <<policyName, policy, numSats, numGnds, stepCount, turn, gndId2CurrSat, gndId2SatQueue,
              gndId2SatInQueue, gndId2ConnectionStartStep, callGnd, callVisible,
              callBuf, callCurrent, callStep, callRet, prevVisible, waiting,
              arrivedBefore, steadyVisible, selectedAt, twinStartStep, twinRet,
              rngInSync, twinQueue, twinInQueue>>

twinVars == <<twinStartStep, twinRet, rngInSync, twinQueue, twinInQueue>>

(***************************************************************************)
(* Observation spacing: the state of the spacing strategy, the lead         *)
(* satellite's distance since its last capture, and the record of the last *)
(* step.                                                                   *)
(***************************************************************************)
VARIABLES
  spacing,        \* spacing strategy name given on the command line
  numSpaced,      \* satellites.size()
  thresholdKm,    \* satId2ThresholdKm of the lead satellite
  leadDistance,   \* distance of the lead satellite from its prevSensePosn
  rotationIndex,  \* OrbitSpacedStrategy::rotationIndex
  spacingStep,    \* the step loop's counter
  crossings,      \* number of steps so far with distanceKm >= thresholdKm
  crossedNow,     \* TRUE when the last step had distanceKm >= thresholdKm
  lastTriggered   \* indices of the satellites whose triggerSense the last step called

(***************************************************************************)
(* Fields of the other spacing strategies, the satellites' local clocks and *)
(* the record of the last call made on a strategy.  The twin variables hold *)
(* what a BentPipeStrategy given the same calls returned and did.           *)
(***************************************************************************)
VARIABLES
  frameCount,        \* FrameSpacedStrategy::frameCount
  satelliteCount,    \* FrameSpacedStrategy::satelliteCount
  rephased,          \* CloseOrbitSpacedStrategy::rephased
  localTime,         \* index -> Satellite::getLocalTime() in seconds
  startTime,         \* the local time every satellite was constructed with
  executeCalls,      \* number of executeObservation calls so far
  lastOp,            \* the strategy operation called last
  lastShould,        \* what the last shouldTriggerObservation returned
  thresholdsWritten, \* index -> satId2ThresholdKm value the last call wrote
  eventsEmitted,     \* trigger-time events the last call logged
  referenceSet,      \* indices whose setPrevSensePosnDateTime the last call called
  twinShould,        \* lastShould of the BentPipeStrategy
  twinTriggered,     \* lastTriggered of the BentPipeStrategy
  twinThresholds,    \* thresholdsWritten of the BentPipeStrategy
  twinEvents,        \* eventsEmitted of the BentPipeStrategy
  twinReferenceSet   \* referenceSet of the BentPipeStrategy

(***************************************************************************)
(* The spacing name given on the command line and what createStrategy made  *)
(* of it; the batch counter of the batched CloseSpacedStrategy and the      *)
(* sensors its last executeObservation calls latched.                       *)
(***************************************************************************)
VARIABLES
  spacingName,       \* spacing name given on the command line
  spacingError,      \* the name in the exception createStrategy threw, or none
  batchCount,        \* CloseSpacedStrategy::batchCount (batched form)
  recentTriggered    \* indices latched by the last executeObservation calls,
                     \* latest last, at most TotalBatches of them

factoryVars == <<spacingName, spacingError>>

batchVars == <<batchCount, recentTriggered>>

strategyVars == <<frameCount, satelliteCount, rephased, localTime, startTime,
                  executeCalls, lastOp, lastShould, thresholdsWritten,
                  eventsEmitted, referenceSet, twinShould, twinTriggered,
                  twinThresholds, twinEvents, twinReferenceSet,
                  factoryVars, batchVars>>

spacingVars == <<spacing, numSpaced, thresholdKm, leadDistance, rotationIndex,
                 spacingStep, crossings, crossedNow, lastTriggered,
                 strategyVars>>

vars == <<sensorVars, linkVars, spacingVars>>

\* Unsigned arithmetic of width log2(MaxWord + 1).
WrapWord(x) == x % (MaxWord + 1)

\* Arguments given to setBitsPerSense.
BitsPerSenseValues == {0, 3, 8}

\* Capacities given to setMaxBufferCapacity (MaxWord is the default).
CapacityValues == {4, 11, MaxWord}

\* Arguments given to drainBuffer.
DrainValues == {0, 2, 5, MaxWord}

\* std::mt19937 rng{42}: the seed of the rng of a RandomPolicy instance.
RngSeed(instance) == 42

\* The null satellite pointer; satellite ids start at 1.
NULL == 0

\* Satellite ids, in the order of the constellation configuration.
Sats == {1, 2, 3, 4}

\* Ground station ids, in the order the step loop visits them.
Gnds == {1, 2, 3}

\* The configurations explored: satellites and ground stations of a run.
Configurations ==
  {[sats |-> 4, gnds |-> 1], [sats |-> 3, gnds |-> 1], [sats |-> 3, gnds |-> 2],
   [sats |-> 2, gnds |-> 1]}

\* The state of the link scheduler before the first decision of a run.
LinkStart ==
  /\ policyName = policy
  /\ stepCount = 0
  /\ turn = 1
  /\ gndId2CurrSat = [g \in Gnds |-> NULL]
  /\ gndId2SatQueue = [g \in Gnds |-> <<>>]
  /\ gndId2SatInQueue = [g \in Gnds |-> {}]
  /\ gndId2ConnectionStartStep = [g \in Gnds |-> 0]
  /\ callGnd = NULL
  /\ callVisible = {}
  /\ callBuf = [s \in Sats |-> 0]
  /\ callCurrent = NULL
  /\ callStep = 0
  /\ callRet = NULL
  /\ prevVisible = [g \in Gnds |-> {}]
  /\ waiting = [g \in Gnds |-> {}]
  /\ arrivedBefore = [g \in Gnds |-> {}]
  /\ steadyVisible = [g \in Gnds |-> {}]
  /\ selectedAt = [g \in Gnds |-> 0]
  /\ twinStartStep = [g \in Gnds |-> 0]
  /\ twinRet = NULL
  /\ rngInSync = (RngSeed(1) = RngSeed(2))
  /\ twinQueue = <<>>
  /\ twinInQueue = {}

\* The state of the spacing strategy before the first step of a run that
\* takes no spacing step.
\* No write: the function with the empty domain.
NoWrites == [i \in {} |-> 0]

\* The strategy fields after construction, before any call.
StrategyStart ==
  /\ frameCount = 0
  /\ satelliteCount = 0
  /\ rephased = FALSE
  /\ executeCalls = 0
  /\ lastOp = "none"
  /\ lastShould = FALSE
  /\ thresholdsWritten = NoWrites
  /\ eventsEmitted = 0
  /\ referenceSet = {}
  /\ twinShould = FALSE
  /\ twinTriggered = {}
  /\ twinThresholds = NoWrites
  /\ twinEvents = 0
  /\ twinReferenceSet = {}
  /\ spacingError = "none"
  /\ batchCount = 0
  /\ recentTriggered = <<>>

SpacingStart ==
  /\ StrategyStart
  /\ startTime = 0
  /\ localTime = [i \in {0} |-> 0]
  /\ spacing = "orbit-spaced"
  /\ spacingName = spacing
  /\ numSpaced = 1
  /\ thresholdKm = 1
  /\ leadDistance = 0
  /\ rotationIndex = 0
  /\ spacingStep = 0
  /\ crossings = 0
  /\ crossedNow = FALSE
  /\ lastTriggered = {}

(***************************************************************************)
(* Sensor::Sensor: the state after construction.                           *)
(***************************************************************************)
SensorStart ==
  /\ senseTrigger = FALSE
  /\ bitsBuffered = 0
  /\ bitsPerSense = 0
  /\ maxBufferCapacity = MaxWord
  /\ totalBitsLost = 0
  /\ sensorOp = "construct"
  /\ sensorArg = 0
  /\ sensorRet = 0
  /\ overflowEvents = 0
  /\ numCaptures = 0
  /\ sumSensed = 0
  /\ sumDrained = 0
  /\ sumExcess = 0
  /\ wrapped = FALSE
  /\ capSetLate = FALSE
  /\ relatched = FALSE
  /\ eciPosn = 0
  /\ globalTime = 0
  /\ prevSensePosn = eciPosn
  /\ prevSenseDateTime = globalTime

\* Sensor::setBitsPerSense
SetBitsPerSense(bits) ==
  /\ bitsPerSense' = bits
  /\ sensorOp' = "setBitsPerSense"
  /\ sensorArg' = 0 /\ sensorRet' = 0
  /\ UNCHANGED <<senseTrigger, bitsBuffered, maxBufferCapacity, totalBitsLost,
                 overflowEvents, numCaptures, sumSensed, sumDrained,
                 sumExcess, wrapped, capSetLate, relatched, referenceVars>>
  /\ UNCHANGED <<linkVars, spacingVars>>

\* Sensor::setMaxBufferCapacity
SetMaxBufferCapacity(capacityBits) ==
  /\ maxBufferCapacity' = capacityBits
  /\ capSetLate' = (capSetLate \/ numCaptures > 0)
  /\ sensorOp' = "setMaxBufferCapacity"
  /\ sensorArg' = 0 /\ sensorRet' = 0
  /\ UNCHANGED <<senseTrigger, bitsBuffered, bitsPerSense, totalBitsLost,
                 overflowEvents, numCaptures, sumSensed, sumDrained,
                 sumExcess, wrapped, relatched, referenceVars>>
  /\ UNCHANGED <<linkVars, spacingVars>>

\* A latch that a second request releases.
TriggerLatchToggled == ~senseTrigger

\* The value triggerSense stores in senseTrigger.
TriggerLatch == TRUE

\* Sensor::triggerSense
TriggerSense ==
  /\ numCaptures < MaxCaptures
  /\ senseTrigger' = TriggerLatch
  /\ relatched' = senseTrigger
  /\ sensorOp' = "triggerSense"
  /\ sensorArg' = 0 /\ sensorRet' = 0
  /\ UNCHANGED <<bitsBuffered, bitsPerSense, maxBufferCapacity, totalBitsLost,
                 overflowEvents, numCaptures, sumSensed, sumDrained,
                 sumExcess, wrapped, capSetLate, referenceVars>>
  /\ UNCHANGED <<linkVars, spacingVars>>

\* drainBuffer returning the requested amount whatever the buffer holds.
DrainAmountRequested(bits) == bits

\* The value drainBuffer returns.
DrainAmount(bits) == IF bitsBuffered >= bits THEN bits ELSE bitsBuffered

\* Sensor::drainBuffer
DrainBuffer(bits) ==
  /\ bitsBuffered' = (IF bitsBuffered >= bits THEN bitsBuffered - bits ELSE 0)
  /\ sensorArg' = bits
  /\ sensorRet' = DrainAmount(bits)
  /\ sumDrained' = sumDrained + DrainAmount(bits)
  /\ sensorOp' = "drainBuffer"
  /\ UNCHANGED <<senseTrigger, bitsPerSense, maxBufferCapacity, totalBitsLost,
                 overflowEvents, numCaptures, sumSensed, sumExcess, wrapped,
                 capSetLate, relatched, referenceVars>>
  /\ UNCHANGED <<linkVars, spacingVars>>

\* uint64_t newTotal = bitsBuffered + bitsPerSense (wraps)
NewTotal == WrapWord(bitsBuffered + bitsPerSense)

\* An overflow test that looks at the buffer before the capture is added.
OverflowsBeforeAdd == bitsBuffered > maxBufferCapacity

\* An overflow test that also fires when the capture exactly fills the buffer.
OverflowsAtEquality == NewTotal >= maxBufferCapacity

\* The overflow test of update: newTotal > maxBufferCapacity.
Overflows == NewTotal > maxBufferCapacity

\* A loss count that charges only the bits that did not fit.
LostRemainderOnly == WrapWord(totalBitsLost + (NewTotal - maxBufferCapacity))

\* totalBitsLost += bitsPerSense (wraps)
LostAfterOverflow == WrapWord(totalBitsLost + bitsPerSense)

\* An update that records the capture only when it fitted.
SetsPrevSenseUnlessLost(overflowed) == ~overflowed

\* setPrevSensePosnDateTime is called after the overflow test, in the branch
\* that lost data as in the branch that did not.
SetsPrevSense(overflowed) == TRUE

\* Sensor::update (all overloads delegate to update(nanosecond))
Update ==
  /\ sensorOp' = "update"
  /\ sensorArg' = 0 /\ sensorRet' = 0
  /\ IF senseTrigger
       THEN /\ IF Overflows
                 THEN /\ bitsBuffered' = maxBufferCapacity
                      /\ totalBitsLost' = LostAfterOverflow
                      /\ overflowEvents' = overflowEvents + 1
                      /\ sumExcess' = sumExcess + (maxBufferCapacity - bitsBuffered)
                      /\ wrapped' = (\/ wrapped
                                     \/ bitsBuffered + bitsPerSense > MaxWord
                                     \/ totalBitsLost + bitsPerSense > MaxWord)
                 ELSE /\ bitsBuffered' = NewTotal
                      /\ wrapped' = (wrapped \/ bitsBuffered + bitsPerSense > MaxWord)
                      /\ UNCHANGED <<totalBitsLost, overflowEvents, sumExcess>>
            /\ IF SetsPrevSense(Overflows)
                 THEN /\ prevSensePosn' = eciPosn
                      /\ prevSenseDateTime' = globalTime
                 ELSE UNCHANGED <<prevSensePosn, prevSenseDateTime>>
            /\ senseTrigger' = FALSE
            /\ numCaptures' = numCaptures + 1
            /\ sumSensed' = sumSensed + bitsPerSense
       ELSE UNCHANGED <<senseTrigger, bitsBuffered, totalBitsLost, overflowEvents,
                        numCaptures, sumSensed, sumExcess, wrapped,
                        prevSensePosn, prevSenseDateTime>>
  /\ UNCHANGED <<eciPosn, globalTime>>
  /\ relatched' = (senseTrigger /\ relatched)
  /\ UNCHANGED <<bitsPerSense, maxBufferCapacity, sumDrained, capSetLate>>
  /\ UNCHANGED <<linkVars, spacingVars>>

SensorNext ==
  \/ \E bits \in BitsPerSenseValues : SetBitsPerSense(bits)
  \/ \E capacityBits \in CapacityValues : SetMaxBufferCapacity(capacityBits)
  \/ TriggerSense
  \/ \E bits \in DrainValues : DrainBuffer(bits)
  \/ Update

\* A run of the sensor alone: no link decision is made.
SensorInit ==
  /\ SensorStart
  /\ policy = "sticky"
  /\ numSats = 4
  /\ numGnds = 1
  /\ LinkStart
  /\ SpacingStart

SpecSensor == SensorInit /\ [][SensorNext]_vars

(***************************************************************************)
(* The sensor on a moving satellite: between the calls of the sensor the   *)
(* clock advances and the satellite hands the sensor its new position.     *)
(***************************************************************************)

\* Positions handed to setECIPosn.
Positions == {0, 1}

\* Sensor::setECIPosn
SetECIPosn(posn) ==
  /\ eciPosn' = posn
  /\ sensorOp' = "setECIPosn"
  /\ sensorArg' = 0 /\ sensorRet' = 0
  /\ UNCHANGED <<senseTrigger, bitsBuffered, bitsPerSense, maxBufferCapacity,
                 totalBitsLost, overflowEvents, numCaptures, sumSensed,
                 sumDrained, sumExcess, wrapped, capSetLate, relatched>>
  /\ UNCHANGED <<globalTime, prevSensePosn, prevSenseDateTime>>
  /\ UNCHANGED <<linkVars, spacingVars>>

\* The step loop advances the clock the sensor points to.
ClockTick ==
  /\ globalTime < MaxTime
  /\ globalTime' = globalTime + 1
  /\ sensorOp' = "tick"
  /\ sensorArg' = 0 /\ sensorRet' = 0
  /\ UNCHANGED <<senseTrigger, bitsBuffered, bitsPerSense, maxBufferCapacity,
                 totalBitsLost, overflowEvents, numCaptures, sumSensed,
                 sumDrained, sumExcess, wrapped, capSetLate, relatched>>
  /\ UNCHANGED <<eciPosn, prevSensePosn, prevSenseDateTime>>
  /\ UNCHANGED <<linkVars, spacingVars>>

MovingSensorNext ==
  \/ \E bits \in BitsPerSenseValues : SetBitsPerSense(bits)
  \/ \E capacityBits \in CapacityValues : SetMaxBufferCapacity(capacityBits)
  \/ TriggerSense
  \/ Update
  \/ \E posn \in Positions : SetECIPosn(posn)
  \/ ClockTick

SpecMovingSensor == SensorInit /\ [][MovingSensorNext]_vars

(***************************************************************************)
(* Link scheduling policies.                                               *)
(***************************************************************************)

\* minConnectionSteps of RoundRobinPolicy and RandomPolicy.
MinConnectionSteps == 30

\* Policy names PolicyFactory::createPolicy tells apart.
PolicyNames == {"sticky", "fifo", "roundrobin", "random", "sjf", "srtf"}

\* visibleSats as the step loop builds it: the visible satellites in the
\* order of the constellation.
RECURSIVE VisibleSats(_)
VisibleSats(ids) ==
  IF ids = {} THEN <<>>
  ELSE LET first == CHOOSE s \in ids : \A t \in ids : s <= t
       IN <<first>> \o VisibleSats(ids \ {first})

\* for(sat : visibleSats) if(sat == currentSat) ...
IsVisible(sat, visibleSats) ==
  \E i \in 1..Len(visibleSats) : visibleSats[i] = sat

\* ---- FIFOPolicy (queue and tracking set) and RoundRobinPolicy -----------

\* "Add new visible satellites to the queue": every visible id that is not
\* in the tracking set is pushed and inserted, in visibleSats order.
RECURSIVE AddNewVisible(_, _, _)
AddNewVisible(visibleSats, queue, inQueue) ==
  IF visibleSats = <<>> THEN [queue |-> queue, inQueue |-> inQueue]
  ELSE LET satId == Head(visibleSats)
       IN IF satId \notin inQueue
            THEN AddNewVisible(Tail(visibleSats), Append(queue, satId),
                               inQueue \cup {satId})
            ELSE AddNewVisible(Tail(visibleSats), queue, inQueue)

\* "Remove satellites that are no longer visible from the tracking set".
RemoveNotVisible(inQueue, visibleSats) ==
  {satId \in inQueue : IsVisible(satId, visibleSats)}

\* "Process queue to find next satellite with buffered data": pops from the
\* front until a popped id is visible with data; the popped ids are gone.
RECURSIVE ProcessQueue(_, _, _)
ProcessQueue(queue, visibleSats, buf) ==
  IF queue = <<>> THEN [ret |-> NULL, queue |-> <<>>]
  ELSE LET frontSatId == Head(queue)
       IN IF IsVisible(frontSatId, visibleSats) /\ buf[frontSatId] > 0
            THEN [ret |-> frontSatId, queue |-> Tail(queue)]
            ELSE ProcessQueue(Tail(queue), visibleSats, buf)

\* A hold test that only looks at the first visible satellite.
FIFOKeepsCurrentFirstOnly(visibleSats, buf, currentSat) ==
  /\ currentSat # NULL
  /\ visibleSats # <<>>
  /\ Head(visibleSats) = currentSat
  /\ buf[currentSat] > 0

\* FIFOPolicy: the current satellite is kept while visible with data.
FIFOKeepsCurrent(visibleSats, buf, currentSat) ==
  /\ currentSat # NULL
  /\ IsVisible(currentSat, visibleSats)
  /\ buf[currentSat] > 0

\* FIFOPolicy::makeSchedulingDecision: the returned satellite and the new
\* queue and tracking set of the ground station.
FIFODecision(visibleSats, buf, currentSat, queue, inQueue) ==
  IF FIFOKeepsCurrent(visibleSats, buf, currentSat)
    THEN [ret |-> currentSat, queue |-> queue, inQueue |-> inQueue]
    ELSE LET added == AddNewVisible(visibleSats, queue, inQueue)
             found == ProcessQueue(added.queue, visibleSats, buf)
         IN [ret |-> found.ret, queue |-> found.queue,
             inQueue |-> RemoveNotVisible(added.inQueue, visibleSats)]

\* A time slice that is one step too long.
RRKeepsCurrentOneMore(visibleSats, currentSat, step, startStep) ==
  /\ currentSat # NULL
  /\ IsVisible(currentSat, visibleSats)
  /\ step - startStep <= MinConnectionSteps

\* RoundRobinPolicy: the current satellite is kept while visible and its
\* time slice lasts.
RRKeepsCurrent(visibleSats, currentSat, step, startStep) ==
  /\ currentSat # NULL
  /\ IsVisible(currentSat, visibleSats)
  /\ step - startStep < MinConnectionSteps

\* RoundRobinPolicy::makeSchedulingDecision: the returned satellite and the
\* new queue, tracking set and connection start step of the ground station.
RRDecision(visibleSats, buf, currentSat, step, queue, inQueue, startStep) ==
  IF RRKeepsCurrent(visibleSats, currentSat, step, startStep)
    THEN [ret |-> currentSat, queue |-> queue, inQueue |-> inQueue,
          startStep |-> startStep]
    ELSE LET added == AddNewVisible(visibleSats, queue, inQueue)
             found == ProcessQueue(added.queue, visibleSats, buf)
         IN [ret |-> found.ret, queue |-> found.queue,
             inQueue |-> RemoveNotVisible(added.inQueue, visibleSats),
             startStep |-> IF found.ret # NULL THEN step ELSE startStep]

\* ---- StickyPolicy --------------------------------------------------------

\* A hold test without the visibility loop.
StickyKeepsCurrentUnseen(visibleSats, currentSat) == currentSat # NULL

\* A visibility loop that stops after the first visible satellite.
StickyKeepsCurrentFirstOnly(visibleSats, currentSat) ==
  /\ currentSat # NULL
  /\ visibleSats # <<>>
  /\ Head(visibleSats) = currentSat

\* StickyPolicy: the current satellite is kept while visible.
StickyKeepsCurrent(visibleSats, currentSat) ==
  currentSat # NULL /\ IsVisible(currentSat, visibleSats)

\* A bestSat loop that compares with >= : the last of equal buffers wins.
RECURSIVE StickyBestLastOfEquals(_, _, _, _, _)
StickyBestLastOfEquals(visibleSats, buf, occupied, bestSat, bestSatBuffer) ==
  IF visibleSats = <<>> THEN bestSat
  ELSE LET satId == Head(visibleSats)
       IN IF ~occupied[satId] /\ buf[satId] >= bestSatBuffer
            THEN StickyBestLastOfEquals(Tail(visibleSats), buf, occupied, satId,
                                        buf[satId])
            ELSE StickyBestLastOfEquals(Tail(visibleSats), buf, occupied, bestSat,
                                        bestSatBuffer)

\* The bestSat loop: the first visible, unoccupied satellite with the
\* strictly largest buffer above bestSatBuffer.
RECURSIVE StickyBest(_, _, _, _, _)
StickyBest(visibleSats, buf, occupied, bestSat, bestSatBuffer) ==
  IF visibleSats = <<>> THEN bestSat
  ELSE LET satId == Head(visibleSats)
       IN IF ~occupied[satId] /\ buf[satId] > bestSatBuffer
            THEN StickyBest(Tail(visibleSats), buf, occupied, satId, buf[satId])
            ELSE StickyBest(Tail(visibleSats), buf, occupied, bestSat, bestSatBuffer)

\* A decision that takes the fullest visible satellite whatever the flags.
StickyDecisionAnyFlag(visibleSats, buf, occupied, currentSat) ==
  IF StickyKeepsCurrent(visibleSats, currentSat)
    THEN currentSat
    ELSE StickyBest(visibleSats, buf, [s \in DOMAIN occupied |-> FALSE], NULL, 0)

\* StickyPolicy::makeSchedulingDecision
StickyDecision(visibleSats, buf, occupied, currentSat) ==
  IF StickyKeepsCurrent(visibleSats, currentSat)
    THEN currentSat
    ELSE StickyBest(visibleSats, buf, occupied, NULL, 0)

\* ---- ShortestJobFirstPolicy (the stub of the source) --------------------

\* The first visible satellite with data.
RECURSIVE FirstWithData(_, _)
FirstWithData(visibleSats, buf) ==
  IF visibleSats = <<>> THEN NULL
  ELSE IF buf[Head(visibleSats)] > 0 THEN Head(visibleSats)
  ELSE FirstWithData(Tail(visibleSats), buf)

\* ShortestJobFirstPolicy::makeSchedulingDecision
SJFDecision(visibleSats, buf) == FirstWithData(visibleSats, buf)

\* ---- RandomPolicy --------------------------------------------------------

\* A timer that counts from step 0 instead of the connection start step.
RandomKeepsCurrentFromZero(visibleSats, currentSat, step, startStep) ==
  /\ currentSat # NULL
  /\ IsVisible(currentSat, visibleSats)
  /\ step < MinConnectionSteps

\* RandomPolicy: the current satellite is kept while visible and fewer than
\* minConnectionSteps steps have passed.
RandomKeepsCurrent(visibleSats, currentSat, step, startStep) ==
  /\ currentSat # NULL
  /\ IsVisible(currentSat, visibleSats)
  /\ step - startStep < MinConnectionSteps

\* An eligibleSats loop without the buffer test.
EligibleSatsAnyBuffer(visibleSats, buf) == visibleSats

\* eligibleSats: the visible satellites with data, in visibleSats order.
EligibleSats(visibleSats, buf) ==
  SelectSeq(visibleSats, LAMBDA satId : buf[satId] > 0)

\* RandomPolicy::makeSchedulingDecision, given the index dist(rng) draws.
RandomDecision(visibleSats, buf, currentSat, step, startStep, draw) ==
  IF RandomKeepsCurrent(visibleSats, currentSat, step, startStep)
    THEN [ret |-> currentSat, startStep |-> startStep]
    ELSE LET eligibleSats == EligibleSats(visibleSats, buf)
         IN IF eligibleSats = <<>>
              THEN [ret |-> NULL, startStep |-> startStep]
              ELSE [ret |-> eligibleSats[(draw % Len(eligibleSats)) + 1],
                    startStep |-> step]

\* ---- ShortestRemainingTimePolicy (the stub of the source) ---------------

\* ShortestRemainingTimePolicy::makeSchedulingDecision: the same loop as the
\* ShortestJobFirstPolicy stub, the first visible satellite with data.
SRTFDecision(visibleSats, buf) == FirstWithData(visibleSats, buf)

(***************************************************************************)
(* The step loop: at every step each ground station, in order, asks the    *)
(* policy for its satellite and takes the answer as its connection.        *)
(***************************************************************************)

\* Last step of a run.
Horizon ==
  IF numGnds > 1 THEN MaxStepShared
  ELSE IF numSats > 3 THEN MaxStepWide
  ELSE IF numSats > 2 THEN MaxStepFull
  ELSE MaxStep

\* The ground station g decides now.
CanDecide(g) == g = turn /\ g <= numGnds /\ stepCount <= Horizon

\* satId2Occupied as the step loop passes it to g: the satellites other
\* ground stations are connected to.
Occupied(g) ==
  [s \in Sats |-> \E h \in 1..numGnds : h # g /\ gndId2CurrSat[h] = s]

\* Buffer levels shown to a policy that compares them: any level for the
\* visible satellites (no policy reads the buffer of a satellite out of view).
BufInputs(visible) ==
  {buf \in [Sats -> 0..MaxBuf] : \A s \in Sats \ visible : buf[s] = 0}

\* Buffer levels shown to a policy that only tests them against zero.
DataInputs(visible) ==
  {buf \in [Sats -> {0, MaxBuf}] : \A s \in Sats \ visible : buf[s] = 0}

\* What every decision does to the step loop's state and to the call record.
Decided(g, visible, buf, ret) ==
  /\ gndId2CurrSat' = [gndId2CurrSat EXCEPT ![g] = ret]
  /\ IF g = numGnds
       THEN turn' = 1 /\ stepCount' = stepCount + 1
       ELSE turn' = g + 1 /\ stepCount' = stepCount
  /\ callGnd' = g
  /\ callVisible' = visible
  /\ callBuf' = buf
  /\ callCurrent' = gndId2CurrSat[g]
  /\ callStep' = stepCount
  /\ callRet' = ret
  /\ UNCHANGED <<policyName, policy, numSats, numGnds>>
  /\ UNCHANGED <<sensorVars, spacingVars>>

\* Arrival bookkeeping of a decision for g: a satellite starts waiting when
\* it enters view with data; it stops waiting when it is selected, leaves
\* view or shows an empty buffer.
Arrivals(g, visible, buf, ret) ==
  LET withData  == {s \in visible : buf[s] > 0}
      stay      == waiting[g] \cap withData
      newcomers == {s \in withData : s \notin prevVisible[g]}
      nowWaiting == (stay \cup newcomers) \ {ret}
  IN /\ prevVisible' = [prevVisible EXCEPT ![g] = visible]
     /\ waiting' = [waiting EXCEPT ![g] = nowWaiting]
     /\ arrivedBefore' = [arrivedBefore EXCEPT ![g] =
          {p \in nowWaiting \X nowWaiting :
             \/ p[1] \in stay /\ p[2] \in newcomers
             \/ p \in arrivedBefore[g] /\ p[1] \in stay /\ p[2] \in stay}]

\* Steadiness bookkeeping of a decision for g: the visible set stays recorded
\* while every call shows the same non-empty set with data on all of it.
Steadiness(g, visible, buf) ==
  steadyVisible' = [steadyVisible EXCEPT ![g] =
    IF /\ visible # {}
       /\ \A s \in visible : buf[s] > 0
       /\ (stepCount = 0 \/ steadyVisible[g] = visible)
      THEN visible ELSE {}]

\* Connection bookkeeping of a decision for g: the step is recorded when the
\* connection changes to another satellite.
Selected(g, ret) ==
  selectedAt' = [selectedAt EXCEPT ![g] =
    IF ret # NULL /\ ret # gndId2CurrSat[g] THEN stepCount ELSE @]

DecideSticky(g) ==
  /\ policy = "sticky"
  /\ CanDecide(g)
  /\ UNCHANGED twinVars
  /\ \E visible \in SUBSET (1..numSats) : \E buf \in BufInputs(visible) :
       /\ Decided(g, visible, buf,
                  StickyDecision(VisibleSats(visible), buf, Occupied(g),
                                 gndId2CurrSat[g]))
       /\ UNCHANGED <<gndId2SatQueue, gndId2SatInQueue, gndId2ConnectionStartStep,
                      prevVisible, waiting, arrivedBefore, steadyVisible, selectedAt>>

DecideFIFO(g) ==
  /\ policy = "fifo"
  /\ CanDecide(g)
  /\ UNCHANGED twinVars
  /\ \E visible \in SUBSET (1..numSats) : \E buf \in DataInputs(visible) :
       LET d == FIFODecision(VisibleSats(visible), buf, gndId2CurrSat[g],
                             gndId2SatQueue[g], gndId2SatInQueue[g])
       IN /\ Decided(g, visible, buf, d.ret)
          /\ gndId2SatQueue' = [gndId2SatQueue EXCEPT ![g] = d.queue]
          /\ gndId2SatInQueue' = [gndId2SatInQueue EXCEPT ![g] = d.inQueue]
          /\ Arrivals(g, visible, buf, d.ret)
          /\ UNCHANGED <<gndId2ConnectionStartStep, steadyVisible, selectedAt>>

DecideRoundRobin(g) ==
  /\ policy = "roundrobin"
  /\ CanDecide(g)
  /\ UNCHANGED twinVars
  /\ \E visible \in SUBSET (1..numSats) : \E buf \in DataInputs(visible) :
       LET d == RRDecision(VisibleSats(visible), buf, gndId2CurrSat[g], stepCount,
                           gndId2SatQueue[g], gndId2SatInQueue[g],
                           gndId2ConnectionStartStep[g])
       IN /\ Decided(g, visible, buf, d.ret)
          /\ gndId2SatQueue' = [gndId2SatQueue EXCEPT ![g] = d.queue]
          /\ gndId2SatInQueue' = [gndId2SatInQueue EXCEPT ![g] = d.inQueue]
          /\ gndId2ConnectionStartStep' =
               [gndId2ConnectionStartStep EXCEPT ![g] = d.startStep]
          /\ Steadiness(g, visible, buf)
          /\ Selected(g, d.ret)
          /\ UNCHANGED <<prevVisible, waiting, arrivedBefore>>

DecideRandom(g) ==
  /\ policy = "random"
  /\ CanDecide(g)
  /\ UNCHANGED twinVars
  /\ \E visible \in SUBSET (1..numSats) : \E buf \in DataInputs(visible), draw \in 0..(numSats - 1) :
       LET d == RandomDecision(VisibleSats(visible), buf, gndId2CurrSat[g],
                               stepCount, gndId2ConnectionStartStep[g], draw)
       IN /\ Decided(g, visible, buf, d.ret)
          /\ gndId2ConnectionStartStep' =
               [gndId2ConnectionStartStep EXCEPT ![g] = d.startStep]
          /\ Selected(g, d.ret)
          /\ UNCHANGED <<gndId2SatQueue, gndId2SatInQueue,
                         prevVisible, waiting, arrivedBefore, steadyVisible>>

DecideSJF(g) ==
  /\ policy = "sjf"
  /\ CanDecide(g)
  /\ UNCHANGED twinVars
  /\ \E visible \in SUBSET (1..numSats) : \E buf \in BufInputs(visible) :
       /\ Decided(g, visible, buf, SJFDecision(VisibleSats(visible), buf))
       /\ Selected(g, SJFDecision(VisibleSats(visible), buf))
       /\ UNCHANGED <<gndId2SatQueue, gndId2SatInQueue, gndId2ConnectionStartStep,
                      prevVisible, waiting, arrivedBefore, steadyVisible>>

DecideSRTF(g) ==
  /\ policy = "srtf"
  /\ CanDecide(g)
  /\ UNCHANGED twinVars
  /\ \E visible \in SUBSET (1..numSats) : \E buf \in BufInputs(visible) :
       /\ Decided(g, visible, buf, SRTFDecision(VisibleSats(visible), buf))
       /\ Selected(g, SRTFDecision(VisibleSats(visible), buf))
       /\ UNCHANGED <<gndId2SatQueue, gndId2SatInQueue, gndId2ConnectionStartStep,
                      prevVisible, waiting, arrivedBefore, steadyVisible>>

LinkNext ==
  \/ \E g \in Gnds : DecideSticky(g)
  \/ \E g \in Gnds : DecideFIFO(g)
  \/ \E g \in Gnds : DecideRoundRobin(g)
  \/ \E g \in Gnds : DecideRandom(g)
  \/ \E g \in Gnds : DecideSJF(g)
  \/ \E g \in Gnds : DecideSRTF(g)

\* A run of the link scheduler: the policy and the number of ground stations
\* come from the command line and the configuration.
LinkInit ==
  /\ SensorStart
  /\ policy \in PolicyNames
  /\ \E c \in Configurations : numSats = c.sats /\ numGnds = c.gnds
  /\ LinkStart
  /\ SpacingStart

SpecLink == LinkInit /\ [][LinkNext]_vars

(***************************************************************************)
(* PolicyFactory: the policy object a run is given for the name on the     *)
(* command line.                                                           *)
(***************************************************************************)

\* No policy object: createPolicy has not returned one.
NoPolicy == "none"

\* Names createPolicy is called with: the names it compares with, and two
\* that it does not know.
PolicyArguments ==
  {"sticky", "greedy", "fifo", "roundrobin", "random", "sjf",
   "shortestjobfirst", "srtf", "shortestremainingtime", "lifo", "stickey"}

\* The names the claim lists.
KnownPolicyArguments ==
  {"sticky", "greedy", "fifo", "roundrobin", "random", "sjf",
   "shortestjobfirst", "srtf", "shortestremainingtime"}

\* A factory that returns no policy for a name it does not know.
CreatePolicyOrFail(name) ==
  IF name = "random" THEN "random"
  ELSE IF name = "fifo" THEN "fifo"
  ELSE IF name = "roundrobin" THEN "roundrobin"
  ELSE IF name = "sjf" \/ name = "shortestjobfirst" THEN "sjf"
  ELSE IF name = "srtf" \/ name = "shortestremainingtime" THEN "srtf"
  ELSE IF name = "sticky" \/ name = "greedy" THEN "sticky"
  ELSE NoPolicy

\* PolicyFactory::createPolicy: the class of the object returned.
CreatePolicy(name) ==
  IF name = "random" THEN "random"
  ELSE IF name = "fifo" THEN "fifo"
  ELSE IF name = "roundrobin" THEN "roundrobin"
  ELSE IF name = "sjf" \/ name = "shortestjobfirst" THEN "sjf"
  ELSE IF name = "srtf" \/ name = "shortestremainingtime" THEN "srtf"
  ELSE IF name = "sticky" \/ name = "greedy" THEN "sticky"
  ELSE "sticky"

\* The program creates its policy from the name on the command line.
CreatePolicyCall ==
  /\ policy = NoPolicy
  /\ \E name \in PolicyArguments :
       /\ policyName' = name
       /\ policy' = CreatePolicy(name)
  /\ UNCHANGED <<numSats, numGnds, stepCount, turn, gndId2CurrSat,
                 gndId2SatQueue, gndId2SatInQueue, gndId2ConnectionStartStep,
                 callGnd, callVisible, callBuf, callCurrent, callStep, callRet,
                 prevVisible, waiting, arrivedBefore, steadyVisible,
                 selectedAt, twinVars>>
  /\ UNCHANGED <<sensorVars, spacingVars>>

FactoryNext ==
  \/ CreatePolicyCall
  \/ LinkNext

\* A run from the command line: three satellites and one ground station, no
\* policy object yet.
FactoryInit ==
  /\ SensorStart
  /\ policy = NoPolicy
  /\ numSats = 3
  /\ numGnds = 1
  /\ LinkStart
  /\ SpacingStart

SpecFactory == FactoryInit /\ [][FactoryNext]_vars

(***************************************************************************)
(* The sticky policy shared by two or three ground stations.               *)
(***************************************************************************)

\* Numbers of ground stations that share the sticky policy.
SharedGnds == {2, 3}

StickyNext == \E g \in Gnds : DecideSticky(g)

\* A run of the sticky policy on three satellites.
StickyInit ==
  /\ SensorStart
  /\ policy = "sticky"
  /\ numSats = 3
  /\ numGnds \in SharedGnds
  /\ LinkStart
  /\ SpacingStart

SpecSticky == StickyInit /\ [][StickyNext]_vars

(***************************************************************************)
(* Two instances of one policy.  The first serves every ground station of   *)
(* the step loop; the second is given only the calls of one ground station, *)
(* with the same arguments.                                                *)
(***************************************************************************)

\* The ground station whose calls both instances are given.
ObservedGnd == 2

\* TRUE when a call reaches dist(rng): it does not keep currentSat and
\* eligibleSats is not empty.
Draws(visibleSats, buf, currentSat, step, startStep) ==
  /\ ~RandomKeepsCurrent(visibleSats, currentSat, step, startStep)
  /\ EligibleSats(visibleSats, buf) # <<>>

\* The policies that keep state per ground station.
StatefulPolicies == {"fifo", "roundrobin", "random"}

\* makeSchedulingDecision of the policy named, on the state its instance
\* keeps for the ground station of the call.
StatefulDecision(name, visibleSats, buf, currentSat, step, queue, inQueue, startStep, draw) ==
  IF name = "fifo"
    THEN LET d == FIFODecision(visibleSats, buf, currentSat, queue, inQueue)
         IN [ret |-> d.ret, queue |-> d.queue, inQueue |-> d.inQueue,
             startStep |-> startStep]
  ELSE IF name = "roundrobin"
    THEN RRDecision(visibleSats, buf, currentSat, step, queue, inQueue, startStep)
  ELSE LET d == RandomDecision(visibleSats, buf, currentSat, step, startStep, draw)
       IN [ret |-> d.ret, queue |-> queue, inQueue |-> inQueue,
           startStep |-> d.startStep]

\* The call of the observed ground station, made on both instances.
DecideObserved ==
  /\ policy \in StatefulPolicies
  /\ turn = ObservedGnd
  /\ stepCount <= MaxStepShared
  /\ \E visible \in SUBSET (1..numSats) : \E buf \in DataInputs(visible) :
     \E draw \in 0..(numSats - 1), twinDraw \in 0..(numSats - 1) :
       LET g == ObservedGnd
           visibleSats == VisibleSats(visible)
           currentSat == gndId2CurrSat[g]
           d == StatefulDecision(policy, visibleSats, buf, currentSat, stepCount,
                                 gndId2SatQueue[g], gndId2SatInQueue[g],
                                 gndId2ConnectionStartStep[g], draw)
           t == StatefulDecision(policy, visibleSats, buf, currentSat, stepCount,
                                 twinQueue, twinInQueue, twinStartStep[g], twinDraw)
           drawn == Draws(visibleSats, buf, currentSat, stepCount,
                          gndId2ConnectionStartStep[g])
           twinDrawn == Draws(visibleSats, buf, currentSat, stepCount,
                              twinStartStep[g])
       IN /\ (policy # "random" \/ (rngInSync /\ drawn /\ twinDrawn))
               => twinDraw = draw
          /\ (policy # "random" \/ ~drawn) => draw = 0
          /\ Decided(g, visible, buf, d.ret)
          /\ gndId2SatQueue' = [gndId2SatQueue EXCEPT ![g] = d.queue]
          /\ gndId2SatInQueue' = [gndId2SatInQueue EXCEPT ![g] = d.inQueue]
          /\ gndId2ConnectionStartStep' =
               [gndId2ConnectionStartStep EXCEPT ![g] = d.startStep]
          /\ twinQueue' = t.queue
          /\ twinInQueue' = t.inQueue
          /\ twinStartStep' = [twinStartStep EXCEPT ![g] = t.startStep]
          /\ twinRet' = t.ret
          /\ rngInSync' = (rngInSync /\ (policy = "random" => (drawn <=> twinDrawn)))
          /\ UNCHANGED <<prevVisible, waiting, arrivedBefore, steadyVisible,
                         selectedAt>>

\* The call of another ground station, made on the first instance only.
DecideOther(g) ==
  /\ policy \in StatefulPolicies
  /\ g # ObservedGnd
  /\ g = turn
  /\ g <= numGnds
  /\ stepCount <= MaxStepShared
  /\ \E visible \in SUBSET (1..numSats) : \E buf \in DataInputs(visible) :
     \E draw \in 0..(numSats - 1) :
       LET visibleSats == VisibleSats(visible)
           currentSat == gndId2CurrSat[g]
           d == StatefulDecision(policy, visibleSats, buf, currentSat, stepCount,
                                 gndId2SatQueue[g], gndId2SatInQueue[g],
                                 gndId2ConnectionStartStep[g], draw)
           drawn == Draws(visibleSats, buf, currentSat, stepCount,
                          gndId2ConnectionStartStep[g])
       IN /\ (policy # "random" \/ ~drawn) => draw = 0
          /\ Decided(g, visible, buf, d.ret)
          /\ gndId2SatQueue' = [gndId2SatQueue EXCEPT ![g] = d.queue]
          /\ gndId2SatInQueue' = [gndId2SatInQueue EXCEPT ![g] = d.inQueue]
          /\ gndId2ConnectionStartStep' =
               [gndId2ConnectionStartStep EXCEPT ![g] = d.startStep]
          /\ rngInSync' = (rngInSync /\ ~(policy = "random" /\ drawn))
          /\ UNCHANGED <<twinQueue, twinInQueue, twinStartStep, twinRet>>
          /\ UNCHANGED <<prevVisible, waiting, arrivedBefore, steadyVisible,
                         selectedAt>>

IsolationNext ==
  \/ DecideObserved
  \/ \E g \in Gnds : DecideOther(g)

\* A run of a stateful policy on three satellites and two ground stations.
IsolationInit ==
  /\ SensorStart
  /\ policy \in StatefulPolicies
  /\ numSats = 3
  /\ numGnds = 2
  /\ LinkStart
  /\ SpacingStart

SpecIsolation == IsolationInit /\ [][IsolationNext]_vars

(***************************************************************************)
(* The two completion-driven forms of FIFOPolicy given the same calls: the  *)
(* form with a queue and a tracking set, which the step loop listens to,   *)
(* and the form with a deque that is scanned for membership.               *)
(***************************************************************************)

\* The membership scan of the deque form: for(queuedId : satQueue).
AlreadyInQueue(satId, satQueue) ==
  \E i \in 1..Len(satQueue) : satQueue[i] = satId

\* "Add new visible satellites to back of queue" (deque form).
RECURSIVE DequeAddNewVisible(_, _)
DequeAddNewVisible(visibleSats, satQueue) ==
  IF visibleSats = <<>> THEN satQueue
  ELSE LET satId == Head(visibleSats)
       IN IF ~AlreadyInQueue(satId, satQueue)
            THEN DequeAddNewVisible(Tail(visibleSats), Append(satQueue, satId))
            ELSE DequeAddNewVisible(Tail(visibleSats), satQueue)

\* "Process queue from front, removing invalid entries" (deque form): a
\* popped id that is out of view is skipped, a visible one is returned when
\* it has data.
RECURSIVE DequeProcessQueue(_, _, _)
DequeProcessQueue(satQueue, visibleSats, buf) ==
  IF satQueue = <<>> THEN [ret |-> NULL, queue |-> <<>>]
  ELSE LET frontSatId == Head(satQueue)
       IN IF ~IsVisible(frontSatId, visibleSats)
            THEN DequeProcessQueue(Tail(satQueue), visibleSats, buf)
            ELSE IF buf[frontSatId] > 0
              THEN [ret |-> frontSatId, queue |-> Tail(satQueue)]
              ELSE DequeProcessQueue(Tail(satQueue), visibleSats, buf)

\* FIFOPolicy::makeSchedulingDecision of the deque form: the returned
\* satellite and the new deque of the ground station.
FIFODequeDecision(visibleSats, buf, currentSat, satQueue) ==
  IF FIFOKeepsCurrent(visibleSats, buf, currentSat)
    THEN [ret |-> currentSat, queue |-> satQueue]
    ELSE DequeProcessQueue(DequeAddNewVisible(visibleSats, satQueue),
                           visibleSats, buf)

\* The same call made on both forms.
DecideFIFOForms(g) ==
  /\ policy = "fifo"
  /\ CanDecide(g)
  /\ \E visible \in SUBSET (1..numSats) : \E buf \in DataInputs(visible) :
       LET visibleSats == VisibleSats(visible)
           d == FIFODecision(visibleSats, buf, gndId2CurrSat[g],
                             gndId2SatQueue[g], gndId2SatInQueue[g])
           t == FIFODequeDecision(visibleSats, buf, gndId2CurrSat[g], twinQueue)
       IN /\ Decided(g, visible, buf, d.ret)
          /\ gndId2SatQueue' = [gndId2SatQueue EXCEPT ![g] = d.queue]
          /\ gndId2SatInQueue' = [gndId2SatInQueue EXCEPT ![g] = d.inQueue]
          /\ twinQueue' = t.queue
          /\ twinRet' = t.ret
          /\ UNCHANGED <<twinStartStep, rngInSync, twinInQueue>>
          /\ UNCHANGED <<gndId2ConnectionStartStep, prevVisible, waiting,
                         arrivedBefore, steadyVisible, selectedAt>>

FIFOFormsNext == \E g \in Gnds : DecideFIFOForms(g)

\* A run of the fifo policy on three satellites and one ground station.
FIFOFormsInit ==
  /\ SensorStart
  /\ policy = "fifo"
  /\ numSats = 3
  /\ numGnds = 1
  /\ LinkStart
  /\ SpacingStart

SpecFIFOForms == FIFOFormsInit /\ [][FIFOFormsNext]_vars

(***************************************************************************)
(* Observation spacing strategies.  The step loop moves the lead satellite, *)
(* asks the strategy whether to trigger, calls executeObservation when it   *)
(* says so and updateFrameState otherwise, then updates every sensor.       *)
(***************************************************************************)

\* Index in satellites of the lead satellite.
LeadIndex == 0

\* satellites.at(index).getID()
SatelliteId(index) == index + 1

\* Constellation sizes explored.
SpacedSizes == {1, 2, 3}

\* Thresholds explored (threshCoeff * altitude of the lead satellite).
ThresholdValues == {1, 2}

\* Distance the lead satellite moves in one step.
AdvanceValues == {0, 1, 2}

\* distanceKm as the step loop computes it after the lead satellite moved.
DistanceKm(advance) ==
  IF leadDistance + advance > MaxDistanceKm THEN MaxDistanceKm
  ELSE leadDistance + advance

\* OrbitSpacedStrategy::shouldTriggerObservation
OrbitShouldTrigger(distanceKm, threshold, leadSatId, rotation, size) ==
  IF distanceKm < threshold THEN FALSE
  ELSE leadSatId = SatelliteId(rotation % size)

\* The index taken after the increment instead of before it.
CalculateActiveSatelliteNext(rotation, size) == (rotation + 1) % size

\* OrbitSpacedStrategy::calculateActiveSatellite: the index returned; the
\* caller's step increments rotationIndex.
CalculateActiveSatellite(rotation, size) == rotation % size

(***************************************************************************)
(* Inputs of the other strategies' steps.                                  *)
(***************************************************************************)

\* Change of distanceKm from one step to the next: the lead satellite moves
\* along its orbit, and its distance to a fixed reference position can grow
\* or shrink.
DriftValues == {-1, 0, 1, 2}

\* distanceKm as the step loop computes it after the lead satellite moved.
DriftedDistanceKm(drift) ==
  IF leadDistance + drift > MaxDistanceKm THEN MaxDistanceKm
  ELSE IF leadDistance + drift < 0 THEN 0
  ELSE leadDistance + drift

\* threshCoeff * calcAltitudeKm(satellites.at(i).getECIPosn()) for every
\* index i: the satellites fly at different altitudes.
ThresholdInputs(size) ==
  {[i \in 0..(size - 1) |-> a + (i % 2)] : a \in ThresholdValues}

\* What a strategy call did: the trigger-time events it logged, the indices of
\* the sensors it latched, the thresholds it wrote and the indices of the
\* sensors whose reference it moved.  A call with an empty body did nothing.
NoEffects ==
  [events |-> 0, triggered |-> {}, thresholds |-> NoWrites, reference |-> {}]

\* The record of the last call.
Effects(done) ==
  /\ eventsEmitted' = done.events
  /\ lastTriggered' = done.triggered
  /\ thresholdsWritten' = done.thresholds
  /\ referenceSet' = done.reference

\* The same for the BentPipeStrategy run alongside.
TwinEffects(done) ==
  /\ twinEvents' = done.events
  /\ twinTriggered' = done.triggered
  /\ twinThresholds' = done.thresholds
  /\ twinReferenceSet' = done.reference

(***************************************************************************)
(* OrbitSpacedStrategy: one satellite senses at a crossing, in rotation.    *)
(***************************************************************************)

\* OrbitSpacedStrategy::executeObservation, given the index that
\* calculateActiveSatellite returned.
OrbitExecuteObservation(activeSatIndex, newThresholds) ==
  [events |-> 1, triggered |-> {activeSatIndex},
   thresholds |-> [i \in {activeSatIndex} |-> newThresholds[i]],
   reference |-> {}]

\* OrbitSpacedStrategy::updateFrameState: an empty body.
OrbitUpdateFrameState(leadIndex) == NoEffects

\* One step of the step loop under the orbit-spaced strategy.
OrbitSpacedStep ==
  /\ spacing = "orbit-spaced"
  /\ spacingStep < MaxSpacingStep
  /\ \E advance \in AdvanceValues, newThresholds \in ThresholdInputs(numSpaced) :
       LET distanceKm == DistanceKm(advance)
           should == OrbitShouldTrigger(distanceKm, thresholdKm,
                                        SatelliteId(LeadIndex), rotationIndex,
                                        numSpaced)
       IN /\ lastShould' = should
          /\ crossedNow' = (distanceKm >= thresholdKm)
          /\ crossings' = IF distanceKm >= thresholdKm THEN crossings + 1
                          ELSE crossings
          /\ IF should
               THEN /\ Effects(OrbitExecuteObservation(
                                 CalculateActiveSatellite(rotationIndex,
                                                          numSpaced),
                                 newThresholds))
                    /\ rotationIndex' = rotationIndex + 1
                    /\ lastOp' = "executeObservation"
                    /\ executeCalls' = executeCalls + 1
               ELSE /\ Effects(OrbitUpdateFrameState(LeadIndex))
                    /\ rotationIndex' = rotationIndex
                    /\ lastOp' = "updateFrameState"
                    /\ executeCalls' = executeCalls
          /\ thresholdKm' = IF LeadIndex \in DOMAIN thresholdsWritten'
                            THEN thresholdsWritten'[LeadIndex]
                            ELSE thresholdKm
          \* Sensor::update of the latched sensor moves its prevSensePosn to
          \* the current position
          /\ leadDistance' = IF LeadIndex \in (lastTriggered' \cup referenceSet')
                             THEN 0 ELSE distanceKm
  /\ spacingStep' = spacingStep + 1
  /\ UNCHANGED <<spacing, numSpaced, rephased, localTime, startTime,
                 frameCount, satelliteCount>>
  /\ UNCHANGED <<twinShould, twinTriggered, twinThresholds, twinEvents,
                 twinReferenceSet>>
  /\ UNCHANGED <<factoryVars, batchVars>>
  /\ UNCHANGED <<sensorVars, linkVars>>

(***************************************************************************)
(* FrameSpacedStrategy (the class with the cached satellite count).        *)
(***************************************************************************)

\* FrameSpacedStrategy::shouldTriggerObservation
FrameShouldTrigger(distanceKm, threshold) == distanceKm >= threshold

FrameFiresOnFirst(count, size) == count % size = 1 % size

\* executeObservation's test on the incremented frameCount.
FrameFires(count, size) == count % size = 0

\* FrameSpacedStrategy::executeObservation
FrameExecuteObservation(size, newThresholds) ==
  LET count == frameCount + 1
  IN /\ satelliteCount' = size
     /\ IF FrameFires(count, size)
          THEN /\ frameCount' = 0
               /\ eventsEmitted' = 1
               /\ lastTriggered' = 0..(size - 1)
               /\ thresholdsWritten' = newThresholds
          ELSE /\ frameCount' = count
               /\ eventsEmitted' = 0
               /\ lastTriggered' = {}
               /\ thresholdsWritten' = NoWrites
     /\ referenceSet' = {}

FrameUpdatesLeadAlways(cachedCount, count) == TRUE

\* updateFrameState's guard.
FrameUpdatesLead(cachedCount, count) ==
  cachedCount > 0 /\ count % cachedCount # 0

\* FrameSpacedStrategy::updateFrameState
FrameUpdateFrameState(leadIndex) ==
  /\ referenceSet' = IF FrameUpdatesLead(satelliteCount, frameCount)
                       THEN {leadIndex} ELSE {}
  /\ eventsEmitted' = 0
  /\ lastTriggered' = {}
  /\ thresholdsWritten' = NoWrites
  /\ UNCHANGED <<frameCount, satelliteCount>>

\* One step of the step loop under the frame-spaced strategy.
FrameSpacedStep ==
  /\ spacing = "frame-spaced"
  /\ spacingStep < MaxSpacingStep
  /\ \E drift \in DriftValues, newThresholds \in ThresholdInputs(numSpaced) :
       LET distanceKm == DriftedDistanceKm(drift)
           should == FrameShouldTrigger(distanceKm, thresholdKm)
       IN /\ lastShould' = should
          /\ crossedNow' = (distanceKm >= thresholdKm)
          /\ crossings' = IF distanceKm >= thresholdKm THEN crossings + 1
                          ELSE crossings
          /\ IF should
               THEN /\ FrameExecuteObservation(numSpaced, newThresholds)
                    /\ lastOp' = "executeObservation"
                    /\ executeCalls' = executeCalls + 1
               ELSE /\ FrameUpdateFrameState(LeadIndex)
                    /\ lastOp' = "updateFrameState"
                    /\ executeCalls' = executeCalls
          /\ thresholdKm' = IF LeadIndex \in DOMAIN thresholdsWritten'
                            THEN thresholdsWritten'[LeadIndex]
                            ELSE thresholdKm
          \* Sensor::update of a latched sensor, like setPrevSensePosnDateTime,
          \* moves the lead's prevSensePosn to the current position
          /\ leadDistance' = IF LeadIndex \in (lastTriggered' \cup referenceSet')
                             THEN 0 ELSE distanceKm
  /\ spacingStep' = spacingStep + 1
  /\ UNCHANGED <<spacing, numSpaced, rotationIndex, rephased, localTime,
                 startTime>>
  /\ UNCHANGED <<twinShould, twinTriggered, twinThresholds, twinEvents,
                 twinReferenceSet>>
  /\ UNCHANGED <<factoryVars, batchVars>>
  /\ UNCHANGED <<sensorVars, linkVars>>

(***************************************************************************)
(* BentPipeStrategy: every satellite senses at every threshold crossing.   *)
(***************************************************************************)

BentPipeShouldTriggerBeyond(distanceKm, threshold) == distanceKm > threshold

\* BentPipeStrategy::shouldTriggerObservation
BentPipeShouldTrigger(distanceKm, threshold) == distanceKm >= threshold

\* BentPipeStrategy::executeObservation
BentPipeExecuteObservation(size, newThresholds) ==
  [events |-> 1, triggered |-> 0..(size - 1), thresholds |-> newThresholds,
   reference |-> {}]

\* BentPipeStrategy::updateFrameState: an empty body.
BentPipeUpdateFrameState(leadIndex) == NoEffects

\* One step of the step loop under the bent-pipe strategy.
BentPipeStep ==
  /\ spacing = "bent-pipe"
  /\ spacingStep < MaxSpacingStep
  /\ \E drift \in DriftValues, newThresholds \in ThresholdInputs(numSpaced) :
       LET distanceKm == DriftedDistanceKm(drift)
           should == BentPipeShouldTrigger(distanceKm, thresholdKm)
       IN /\ lastShould' = should
          /\ crossedNow' = (distanceKm >= thresholdKm)
          /\ crossings' = IF distanceKm >= thresholdKm THEN crossings + 1
                          ELSE crossings
          /\ IF should
               THEN /\ Effects(BentPipeExecuteObservation(numSpaced, newThresholds))
                    /\ lastOp' = "executeObservation"
                    /\ executeCalls' = executeCalls + 1
               ELSE /\ Effects(BentPipeUpdateFrameState(LeadIndex))
                    /\ lastOp' = "updateFrameState"
                    /\ executeCalls' = executeCalls
          /\ thresholdKm' = IF LeadIndex \in DOMAIN thresholdsWritten'
                            THEN thresholdsWritten'[LeadIndex]
                            ELSE thresholdKm
          /\ leadDistance' = IF LeadIndex \in (lastTriggered' \cup referenceSet')
                             THEN 0 ELSE distanceKm
  /\ spacingStep' = spacingStep + 1
  /\ UNCHANGED <<spacing, numSpaced, rotationIndex, rephased, localTime,
                 startTime, frameCount, satelliteCount>>
  /\ UNCHANGED <<twinShould, twinTriggered, twinThresholds, twinEvents,
                 twinReferenceSet>>
  /\ UNCHANGED <<factoryVars, batchVars>>
  /\ UNCHANGED <<sensorVars, linkVars>>

(***************************************************************************)
(* CloseSpacedStrategy, simultaneous form: as BentPipeStrategy.             *)
(***************************************************************************)

\* CloseSpacedStrategy::shouldTriggerObservation
CloseSpacedShouldTrigger(distanceKm, threshold) == distanceKm >= threshold

\* CloseSpacedStrategy::executeObservation
CloseSpacedExecuteObservation(size, newThresholds) ==
  [events |-> 1, triggered |-> 0..(size - 1), thresholds |-> newThresholds,
   reference |-> {}]

\* CloseSpacedStrategy::updateFrameState: an empty body.
CloseSpacedUpdateFrameState(leadIndex) == NoEffects

\* One step of the step loop under the close-spaced strategy.
CloseSpacedStep ==
  /\ spacing = "close-spaced"
  /\ spacingStep < MaxSpacingStep
  /\ \E drift \in DriftValues, newThresholds \in ThresholdInputs(numSpaced) :
       LET distanceKm == DriftedDistanceKm(drift)
           should == CloseSpacedShouldTrigger(distanceKm, thresholdKm)
       IN /\ lastShould' = should
          /\ crossedNow' = (distanceKm >= thresholdKm)
          /\ crossings' = IF distanceKm >= thresholdKm THEN crossings + 1
                          ELSE crossings
          /\ IF should
               THEN /\ Effects(CloseSpacedExecuteObservation(numSpaced, newThresholds))
                    /\ lastOp' = "executeObservation"
                    /\ executeCalls' = executeCalls + 1
               ELSE /\ Effects(CloseSpacedUpdateFrameState(LeadIndex))
                    /\ lastOp' = "updateFrameState"
                    /\ executeCalls' = executeCalls
          /\ thresholdKm' = IF LeadIndex \in DOMAIN thresholdsWritten'
                            THEN thresholdsWritten'[LeadIndex]
                            ELSE thresholdKm
          /\ leadDistance' = IF LeadIndex \in (lastTriggered' \cup referenceSet')
                             THEN 0 ELSE distanceKm
  /\ spacingStep' = spacingStep + 1
  /\ UNCHANGED <<spacing, numSpaced, rotationIndex, rephased, localTime,
                 startTime, frameCount, satelliteCount>>
  /\ UNCHANGED <<twinShould, twinTriggered, twinThresholds, twinEvents,
                 twinReferenceSet>>
  /\ UNCHANGED <<factoryVars, batchVars>>
  /\ UNCHANGED <<sensorVars, linkVars>>

(***************************************************************************)
(* CloseOrbitSpacedStrategy: a one-time re-phasing of the satellites'       *)
(* local clocks into clusters, then the bent-pipe operations.               *)
(***************************************************************************)

\* CloseOrbitSpacedStrategy::clusterSize
ClusterSize == 5

\* CloseOrbitSpacedStrategy::intraDtSec
IntraDtSec == 0

\* CloseOrbitSpacedStrategy::interDtSec
InterDtSec == 540

\* Number of values of the uint8_t that advanceBySeconds casts the whole
\* seconds to.
SecondsArgumentRange == 256

\* advanceBySeconds for a dt of whole seconds (ns = 0): the clock moves by
\* the seconds that reach DateTime::update through static_cast<uint8_t>.
AdvanceBySeconds(t, dt) == t + (dt % SecondsArgumentRange)

\* The local clocks after initialize's loop has set the satellites 1..i:
\* satellite i gets the clock satellite i-1 has by then, advanced.
RECURSIVE RephasedTime(_, _)
RephasedTime(times, i) ==
  IF i = 0 THEN times
  ELSE LET before == RephasedTime(times, i - 1)
           boundary == (i % ClusterSize) = 0
           dt == IF boundary THEN InterDtSec ELSE IntraDtSec
       IN [before EXCEPT ![i] = AdvanceBySeconds(before[i - 1], dt)]

\* Sizes of the constellations re-phased: one satellite, one cluster, two
\* clusters.
RephasedSizes == {1, 2, 6}

\* An initialize that re-phases at every call.
SkipsRephasingNever(flag) == FALSE

\* initialize's first test: if (rephased) return.
SkipsRephasing(flag) == flag

\* CloseOrbitSpacedStrategy::initialize
CloseOrbitInitialize ==
  /\ spacing = "close-orbit-spaced"
  /\ IF SkipsRephasing(rephased)
       THEN UNCHANGED <<rephased, localTime>>
       ELSE IF numSpaced <= 1 \/ ClusterSize <= 1
              THEN rephased' = TRUE /\ UNCHANGED localTime
              ELSE /\ localTime' = RephasedTime(localTime, numSpaced - 1)
                   /\ rephased' = TRUE
  /\ lastOp' = "initialize"
  /\ UNCHANGED <<spacing, numSpaced, thresholdKm, leadDistance, rotationIndex,
                 spacingStep, crossings, crossedNow, lastTriggered>>
  /\ UNCHANGED <<frameCount, satelliteCount, startTime, executeCalls,
                 lastShould, thresholdsWritten, eventsEmitted, referenceSet>>
  /\ UNCHANGED <<twinShould, twinTriggered, twinThresholds, twinEvents,
                 twinReferenceSet>>
  /\ UNCHANGED <<factoryVars, batchVars>>
  /\ UNCHANGED <<sensorVars, linkVars>>

CloseOrbitShouldTriggerBeyond(distanceKm, threshold) == distanceKm > threshold

\* CloseOrbitSpacedStrategy::shouldTriggerObservation
CloseOrbitShouldTrigger(distanceKm, threshold) == distanceKm >= threshold

\* CloseOrbitSpacedStrategy::executeObservation
CloseOrbitExecuteObservation(size, newThresholds) ==
  [events |-> 1, triggered |-> 0..(size - 1), thresholds |-> newThresholds,
   reference |-> {}]

\* CloseOrbitSpacedStrategy::updateFrameState: an empty body.
CloseOrbitUpdateFrameState(leadIndex) == NoEffects

\* The operations of a spacing strategy.
StrategyOps ==
  {"shouldTriggerObservation", "executeObservation", "updateFrameState"}

\* One call, with the same arguments, of the same operation of a
\* CloseOrbitSpacedStrategy and of a BentPipeStrategy.  Any operation can be
\* called at any time.
CloseOrbitCall ==
  /\ spacing = "close-orbit-spaced"
  /\ spacingStep < MaxSpacingStep
  /\ \E op \in StrategyOps, drift \in DriftValues,
        newThresholds \in ThresholdInputs(numSpaced) :
       LET distanceKm == DriftedDistanceKm(drift)
       IN /\ lastOp' = op
          /\ crossedNow' = (distanceKm >= thresholdKm)
          /\ crossings' = IF distanceKm >= thresholdKm THEN crossings + 1
                          ELSE crossings
          /\ IF op = "shouldTriggerObservation"
               THEN /\ lastShould' =
                         CloseOrbitShouldTrigger(distanceKm, thresholdKm)
                    /\ twinShould' =
                         BentPipeShouldTrigger(distanceKm, thresholdKm)
                    /\ Effects(NoEffects)
                    /\ TwinEffects(NoEffects)
                    /\ executeCalls' = executeCalls
               ELSE IF op = "executeObservation"
               THEN /\ Effects(CloseOrbitExecuteObservation(numSpaced,
                                                            newThresholds))
                    /\ TwinEffects(BentPipeExecuteObservation(numSpaced,
                                                              newThresholds))
                    /\ executeCalls' = executeCalls + 1
                    /\ UNCHANGED <<lastShould, twinShould>>
               ELSE /\ Effects(CloseOrbitUpdateFrameState(LeadIndex))
                    /\ TwinEffects(BentPipeUpdateFrameState(LeadIndex))
                    /\ executeCalls' = executeCalls
                    /\ UNCHANGED <<lastShould, twinShould>>
          /\ thresholdKm' = IF LeadIndex \in DOMAIN thresholdsWritten'
                            THEN thresholdsWritten'[LeadIndex]
                            ELSE thresholdKm
          /\ leadDistance' = IF LeadIndex \in (lastTriggered' \cup referenceSet')
                             THEN 0 ELSE distanceKm
  /\ spacingStep' = spacingStep + 1
  /\ UNCHANGED <<spacing, numSpaced, rotationIndex, rephased, localTime,
                 startTime, frameCount, satelliteCount>>
  /\ UNCHANGED <<factoryVars, batchVars>>
  /\ UNCHANGED <<sensorVars, linkVars>>

SpacingNext ==
  \/ CloseOrbitInitialize
  \/ CloseOrbitCall
  \/ OrbitSpacedStep
  \/ FrameSpacedStep
  \/ BentPipeStep
  \/ CloseSpacedStep

\* Local time, in seconds, the satellites are constructed with.
StartTimes == {0, 7}

\* The spacing strategies a run can be started with.
SpacingNames ==
  {"orbit-spaced", "frame-spaced", "bent-pipe", "close-spaced",
   "close-orbit-spaced"}

\* A run of a spacing strategy: no link decision is made.
SpacingInit ==
  /\ SensorStart
  /\ policy = "sticky"
  /\ numSats = 4
  /\ numGnds = 1
  /\ LinkStart
  /\ StrategyStart
  /\ spacing \in SpacingNames
  /\ spacingName = spacing
  /\ startTime \in (IF spacing = "close-orbit-spaced" THEN StartTimes ELSE {0})
  /\ numSpaced \in (IF spacing = "close-orbit-spaced" THEN RephasedSizes
                     ELSE SpacedSizes)
  /\ localTime = [i \in 0..(numSpaced - 1) |-> startTime]
  /\ thresholdKm \in ThresholdValues
  /\ leadDistance = 0
  /\ rotationIndex = 0
  /\ spacingStep = 0
  /\ crossings = 0
  /\ crossedNow = FALSE
  /\ lastTriggered = {}

SpecSpacing == SpacingInit /\ [][SpacingNext]_vars

\* The local clock of one satellite advances by a second (the satellites
\* are updated one after the other).
SatelliteClockTick ==
  /\ spacing = "close-orbit-spaced"
  /\ spacingStep < MaxSpacingStep
  /\ \E i \in 0..(numSpaced - 1) :
       localTime' = [localTime EXCEPT ![i] = localTime[i] + 1]
  /\ lastOp' = "update"
  /\ spacingStep' = spacingStep + 1
  /\ UNCHANGED <<spacing, numSpaced, thresholdKm, leadDistance, rotationIndex,
                 crossings, crossedNow, lastTriggered>>
  /\ UNCHANGED <<frameCount, satelliteCount, rephased, startTime,
                 executeCalls, lastShould, thresholdsWritten, eventsEmitted,
                 referenceSet>>
  /\ UNCHANGED <<twinShould, twinTriggered, twinThresholds, twinEvents,
                 twinReferenceSet>>
  /\ UNCHANGED <<factoryVars, batchVars>>
  /\ UNCHANGED <<sensorVars, linkVars>>

RephaseNext ==
  \/ CloseOrbitInitialize
  \/ SatelliteClockTick

\* A close-orbit-spaced run in which initialize can be called at any time
\* while the clocks run.
RephaseInit ==
  /\ SensorStart
  /\ policy = "sticky"
  /\ numSats = 4
  /\ numGnds = 1
  /\ LinkStart
  /\ StrategyStart
  /\ spacing = "close-orbit-spaced"
  /\ spacingName = spacing
  /\ startTime \in StartTimes
  /\ numSpaced \in RephasedSizes
  /\ localTime = [i \in 0..(numSpaced - 1) |-> startTime]
  /\ thresholdKm = 1
  /\ leadDistance = 0
  /\ rotationIndex = 0
  /\ spacingStep = 0
  /\ crossings = 0
  /\ crossedNow = FALSE
  /\ lastTriggered = {}

SpecRephase == RephaseInit /\ [][RephaseNext]_vars

(***************************************************************************)
(* Strategy objects called directly: any operation at any time, with any   *)
(* distance.                                                               *)
(***************************************************************************)

\* The bookkeeping common to the calls: the distance shown, the threshold of
\* the lead satellite after the call and the distance of the lead from its
\* reference after the sensors' update.
CallRecord(op, distanceKm) ==
  /\ lastOp' = op
  /\ crossedNow' = (distanceKm >= thresholdKm)
  /\ crossings' = IF distanceKm >= thresholdKm THEN crossings + 1
                  ELSE crossings
  /\ executeCalls' = IF op = "executeObservation" THEN executeCalls + 1
                     ELSE executeCalls
  /\ thresholdKm' = IF LeadIndex \in DOMAIN thresholdsWritten'
                    THEN thresholdsWritten'[LeadIndex]
                    ELSE thresholdKm
  /\ leadDistance' = IF LeadIndex \in (lastTriggered' \cup referenceSet')
                     THEN 0 ELSE distanceKm
  /\ spacingStep' = spacingStep + 1

\* One call of any operation of an OrbitSpacedStrategy.
OrbitSpacedCall ==
  /\ spacing = "orbit-spaced"
  /\ spacingStep < MaxSpacingStep
  /\ \E op \in StrategyOps, drift \in DriftValues,
        newThresholds \in ThresholdInputs(numSpaced) :
       LET distanceKm == DriftedDistanceKm(drift)
       IN /\ IF op = "shouldTriggerObservation"
               THEN /\ lastShould' =
                         OrbitShouldTrigger(distanceKm, thresholdKm,
                                            SatelliteId(LeadIndex),
                                            rotationIndex, numSpaced)
                    /\ Effects(NoEffects)
                    /\ rotationIndex' = rotationIndex
               ELSE IF op = "executeObservation"
               THEN /\ Effects(OrbitExecuteObservation(
                                 CalculateActiveSatellite(rotationIndex,
                                                          numSpaced),
                                 newThresholds))
                    /\ rotationIndex' = rotationIndex + 1
                    /\ UNCHANGED lastShould
               ELSE /\ Effects(OrbitUpdateFrameState(LeadIndex))
                    /\ rotationIndex' = rotationIndex
                    /\ UNCHANGED lastShould
          /\ CallRecord(op, distanceKm)
  /\ UNCHANGED <<spacing, numSpaced, rephased, localTime, startTime,
                 frameCount, satelliteCount>>
  /\ UNCHANGED <<twinShould, twinTriggered, twinThresholds, twinEvents,
                 twinReferenceSet>>
  /\ UNCHANGED <<factoryVars, batchVars>>
  /\ UNCHANGED <<sensorVars, linkVars>>

(***************************************************************************)
(* CloseSpacedStrategy, batched form: one batch of satellites per call.    *)
(***************************************************************************)

\* CloseSpacedStrategy::BATCH_SIZE
BatchSize == 10

\* CloseSpacedStrategy::TOTAL_BATCHES
TotalBatches == 5

\* CloseSpacedStrategy::shouldTriggerObservation (batched form):
\* distanceKm >= thresholdKm / TOTAL_BATCHES in floating point.
BatchedShouldTrigger(distanceKm, threshold) ==
  distanceKm * TotalBatches >= threshold

\* startIdx of executeObservation
BatchStart(count) == (count % TotalBatches) * BatchSize

\* endIdx of executeObservation
BatchEnd(count, size) ==
  IF BatchStart(count) + BatchSize < size THEN BatchStart(count) + BatchSize
  ELSE size

\* CloseSpacedStrategy::executeObservation (batched form)
BatchedExecuteObservation(count, size, newThresholds) ==
  LET batch == BatchStart(count)..(BatchEnd(count, size) - 1)
  IN [events |-> 1, triggered |-> batch,
      thresholds |-> [i \in batch |-> newThresholds[i]],
      reference |-> {}]

\* CloseSpacedStrategy::updateFrameState (batched form): an empty body.
BatchedUpdateFrameState(leadIndex) == NoEffects

\* The sets latched by the last TotalBatches executeObservation calls.
Recent(history, triggered) ==
  LET all == Append(history, triggered)
  IN IF Len(all) > TotalBatches THEN Tail(all) ELSE all

\* One call of any operation of a batched CloseSpacedStrategy.
BatchedCloseSpacedCall ==
  /\ spacing = "close-spaced-batched"
  /\ spacingStep < MaxSpacingStep
  /\ \E op \in StrategyOps, drift \in DriftValues,
        newThresholds \in ThresholdInputs(numSpaced) :
       LET distanceKm == DriftedDistanceKm(drift)
       IN /\ IF op = "shouldTriggerObservation"
               THEN /\ lastShould' = BatchedShouldTrigger(distanceKm, thresholdKm)
                    /\ Effects(NoEffects)
                    /\ UNCHANGED batchVars
               ELSE IF op = "executeObservation"
               THEN /\ Effects(BatchedExecuteObservation(batchCount, numSpaced,
                                                         newThresholds))
                    /\ batchCount' = batchCount + 1
                    /\ recentTriggered' = Recent(recentTriggered, lastTriggered')
                    /\ UNCHANGED lastShould
               ELSE /\ Effects(BatchedUpdateFrameState(LeadIndex))
                    /\ UNCHANGED batchVars
                    /\ UNCHANGED lastShould
          /\ CallRecord(op, distanceKm)
  /\ UNCHANGED <<spacing, numSpaced, rotationIndex, rephased, localTime,
                 startTime, frameCount, satelliteCount>>
  /\ UNCHANGED <<twinShould, twinTriggered, twinThresholds, twinEvents,
                 twinReferenceSet>>
  /\ UNCHANGED factoryVars
  /\ UNCHANGED <<sensorVars, linkVars>>

StrategyCallsNext ==
  \/ OrbitSpacedCall
  \/ BatchedCloseSpacedCall

\* Constellation sizes of the batched strategy: below, at and above the
\* BatchSize * TotalBatches satellites its batches span.
BatchedSizes == {1, 3, 11, 50, 51}

StrategyCallsInit ==
  /\ SensorStart
  /\ policy = "sticky"
  /\ numSats = 4
  /\ numGnds = 1
  /\ LinkStart
  /\ StrategyStart
  /\ startTime = 0
  /\ spacing \in {"orbit-spaced", "close-spaced-batched"}
  /\ spacingName = spacing
  /\ numSpaced \in (IF spacing = "close-spaced-batched" THEN BatchedSizes
                     ELSE SpacedSizes)
  /\ localTime = [i \in 0..(numSpaced - 1) |-> startTime]
  /\ thresholdKm \in ThresholdValues
  /\ leadDistance = 0
  /\ rotationIndex = 0
  /\ spacingStep = 0
  /\ crossings = 0
  /\ crossedNow = FALSE
  /\ lastTriggered = {}

SpecStrategyCalls == StrategyCallsInit /\ [][StrategyCallsNext]_vars

(***************************************************************************)
(* SpacingFactory: the strategy object a run is given for the spacing name *)
(* on the command line.                                                    *)
(***************************************************************************)

\* No strategy object: createStrategy has not returned one.
NoStrategy == "none"

\* Names createStrategy is called with: the names of the command line
\* interface and two others.
StrategyArguments ==
  {"bent-pipe", "bentpipe", "close-spaced", "close", "closed", "frame-spaced",
   "frame", "orbit-spaced", "orbit", "close-orbit-spaced", "spiral", "orbital"}

\* The names the command line interface lists.
KnownStrategyArguments ==
  {"bent-pipe", "bentpipe", "close-spaced", "close", "closed", "frame-spaced",
   "frame", "orbit-spaced", "orbit", "close-orbit-spaced"}

\* SpacingFactory::createStrategy: the class of the object returned, or
\* NoStrategy when it throws std::invalid_argument.
CreateStrategy(name) ==
  IF name \in {"bent-pipe", "bentpipe", "close-spaced", "close", "closed"}
    THEN "close-spaced"
  ELSE IF name \in {"frame-spaced", "frame"} THEN "frame-spaced"
  ELSE IF name \in {"orbit-spaced", "orbit"} THEN "orbit-spaced"
  ELSE NoStrategy

\* The strategy name in the message of the exception createStrategy throws
\* ("Unknown spacing strategy: " + strategyName + ". Valid options: ..."),
\* or none when it returns.
CreateStrategyError(name) ==
  IF CreateStrategy(name) = NoStrategy THEN name ELSE "none"

\* The program creates its strategy from the name on the command line.
CreateStrategyCall ==
  /\ spacingName = NoStrategy
  /\ \E name \in StrategyArguments :
       /\ spacingName' = name
       /\ spacing' = CreateStrategy(name)
       /\ spacingError' = CreateStrategyError(name)
  /\ UNCHANGED <<numSpaced, thresholdKm, leadDistance, rotationIndex,
                 spacingStep, crossings, crossedNow, lastTriggered>>
  /\ UNCHANGED <<frameCount, satelliteCount, rephased, localTime, startTime,
                 executeCalls, lastOp, lastShould, thresholdsWritten,
                 eventsEmitted, referenceSet, twinShould, twinTriggered,
                 twinThresholds, twinEvents, twinReferenceSet, batchVars>>
  /\ UNCHANGED <<sensorVars, linkVars>>

\* A run from the command line: createStrategy, then the step loop under
\* the strategy it returned.
SpacingFactoryNext ==
  \/ CreateStrategyCall
  \/ OrbitSpacedStep
  \/ FrameSpacedStep
  \/ CloseSpacedStep

SpacingFactoryInit ==
  /\ SensorStart
  /\ policy = "sticky"
  /\ numSats = 4
  /\ numGnds = 1
  /\ LinkStart
  /\ StrategyStart
  /\ startTime = 0
  /\ spacing = NoStrategy
  /\ spacingName = NoStrategy
  /\ numSpaced \in SpacedSizes
  /\ localTime = [i \in 0..(numSpaced - 1) |-> startTime]
  /\ thresholdKm \in ThresholdValues
  /\ leadDistance = 0
  /\ rotationIndex = 0
  /\ spacingStep = 0
  /\ crossings = 0
  /\ crossedNow = FALSE
  /\ lastTriggered = {}

SpecSpacingFactory == SpacingFactoryInit /\ [][SpacingFactoryNext]_vars

(***************************************************************************)
(* Link scheduling claims.                                                 *)
(***************************************************************************)

\* C5 (P5 Visibility safety): under every policy, a satellite returned by a
\* decision is one of the visibleSats given to that decision.
C5_VisibilitySafety ==
  callRet # NULL => callRet \in callVisible

\* C5 witness: a decision whose currentSat had left view returned another,
\* visible satellite.
C5_Witness ==
  /\ callGnd # NULL
  /\ callCurrent # NULL
  /\ callCurrent \notin callVisible
  /\ callRet # NULL
  /\ callRet \in callVisible

\* C6 (P4 At-most-one): with the ground stations deciding one after another
\* and the occupied flags kept up to date between their decisions, no
\* satellite is the current connection of two ground stations.
C6_AtMostOne ==
  \A s \in Sats : Cardinality({g \in 1..numGnds : gndId2CurrSat[g] = s}) <= 1

\* C7 (FIFO is non-preemptive): whenever currentSat is visible and has data,
\* the fifo policy returns currentSat; it leaves currentSat only when it is
\* out of view or empty.
C7_FIFOHolds ==
  (/\ policy = "fifo"
   /\ callGnd # NULL
   /\ callCurrent # NULL
   /\ callCurrent \in callVisible
   /\ callBuf[callCurrent] > 0)
  => callRet = callCurrent

\* C7 witness: past the 30 steps of the other policies' timer the fifo policy
\* still returned its current satellite while another visible satellite had
\* data.
C7_Witness ==
  /\ policy = "fifo"
  /\ callStep > MinConnectionSteps
  /\ callCurrent # NULL
  /\ callRet = callCurrent
  /\ \E s \in callVisible : s # callCurrent /\ callBuf[s] > 0

\* C8 (FIFO order): the fifo policy never selects a satellite while another
\* satellite that entered the ground station's view at an earlier call, and
\* has stayed in view with data since, is still waiting to be selected.
C8_FirstVisibleFirstServed ==
  [][ policy = "fifo"
      => \A x \in Sats :
           ~(/\ <<x, callRet'>> \in arrivedBefore[callGnd']
             /\ x \in callVisible'
             /\ callBuf'[x] > 0) ]_vars

\* C9 (P6 Queue uniqueness): after every decision of the fifo policy and of
\* the roundrobin policy no satellite id occurs twice in a ground station's
\* queue.
C9_QueueUnique ==
  policy \in {"fifo", "roundrobin"}
  => \A g \in Gnds : \A i, j \in 1..Len(gndId2SatQueue[g]) :
       gndId2SatQueue[g][i] = gndId2SatQueue[g][j] => i = j

\* C10 (round-robin time slice): a roundrobin decision whose currentSat is
\* visible returns currentSat while fewer than 30 steps have passed since the
\* connection start step; from 30 steps on it returns the first entry of the
\* queue (the queued ids followed by the newly visible ones) that is visible
\* with data, when there is one, and records the step as the new connection
\* start step.
C10_RRTimeSlice ==
  [][ (/\ policy = "roundrobin"
       /\ callCurrent' # NULL
       /\ callCurrent' \in callVisible')
      => LET g == callGnd'
             queued == gndId2SatQueue[g]
                         \o VisibleSats(callVisible' \ gndId2SatInQueue[g])
             ready == {i \in 1..Len(queued) :
                         queued[i] \in callVisible' /\ callBuf'[queued[i]] > 0}
         IN IF callStep' - gndId2ConnectionStartStep[g] < 30
              THEN /\ callRet' = callCurrent'
                   /\ gndId2ConnectionStartStep'[g] = gndId2ConnectionStartStep[g]
              ELSE ready # {}
                   => /\ \E i \in ready :
                           /\ \A j \in ready : i <= j
                           /\ callRet' = queued[i]
                      /\ gndId2ConnectionStartStep'[g] = callStep' ]_vars

\* C10 witness: a connection selected at step 0 was held up to step 29 and
\* replaced at step 30 by another satellite, with step 30 recorded.
C10_Witness ==
  /\ policy = "roundrobin"
  /\ callStep = MinConnectionSteps
  /\ callCurrent # NULL
  /\ callCurrent \in callVisible
  /\ callRet # NULL
  /\ callRet # callCurrent
  /\ gndId2ConnectionStartStep[callGnd] = MinConnectionSteps

\* C11 (round-robin cycles): while every call of a run shows a ground station
\* the same visible satellites, all with data, the roundrobin policy keeps
\* serving them slice after slice, so every call selects a satellite.
C11_RRKeepsCycling ==
  (/\ policy = "roundrobin"
   /\ callGnd # NULL
   /\ steadyVisible[callGnd] # {})
  => callRet # NULL

\* C12 (unconnected only when nothing is eligible): the fifo policy and the
\* roundrobin policy return no satellite only on a call where no visible
\* satellite has data.
C12_NoneOnlyWhenNothingEligible ==
  (/\ policy \in {"fifo", "roundrobin"}
   /\ callGnd # NULL
   /\ callRet = NULL)
  => \A s \in callVisible : callBuf[s] = 0

\* C13 (P7 Min-connection honored): a roundrobin or random decision that
\* returns a satellite other than a currentSat that is still visible comes at
\* least 30 steps after the step at which currentSat was selected.
C13_MinConnection ==
  [][ (/\ policy \in {"roundrobin", "random"}
       /\ callCurrent' # NULL
       /\ callCurrent' \in callVisible'
       /\ callRet' # NULL
       /\ callRet' # callCurrent')
      => callStep' - selectedAt[callGnd'] >= 30 ]_vars

\* C13 witness: the random policy replaced a visible currentSat, selected
\* after step 0, once its 30 steps had passed.
C13_Witness ==
  /\ policy = "random"
  /\ callCurrent # NULL
  /\ callCurrent \in callVisible
  /\ callRet # NULL
  /\ callRet # callCurrent
  /\ callStep > MinConnectionSteps

\* C14 (sticky hold): whenever currentSat is visible the sticky policy returns
\* currentSat, whatever the buffers and the occupied flags.
C14_StickyHold ==
  (/\ policy = "sticky"
   /\ callGnd # NULL
   /\ callCurrent # NULL
   /\ callCurrent \in callVisible)
  => callRet = callCurrent

\* C14 witness: the sticky policy kept a currentSat with an empty buffer while
\* an unoccupied visible satellite had data.
C14_Witness ==
  /\ policy = "sticky"
  /\ callCurrent # NULL
  /\ callRet = callCurrent
  /\ callBuf[callCurrent] = 0
  /\ \E s \in callVisible : s # callCurrent /\ callBuf[s] > 0 /\ ~Occupied(callGnd)[s]

\* C15 (sticky fresh selection): with currentSat null or out of view the
\* sticky policy returns the unoccupied visible satellite with the largest
\* buffer above zero, the earliest in visibleSats order among equals, and
\* returns no satellite exactly when there is none.
C15_StickyFresh ==
  (/\ policy = "sticky"
   /\ callGnd # NULL
   /\ (callCurrent = NULL \/ callCurrent \notin callVisible))
  => LET free == {s \in callVisible : ~Occupied(callGnd)[s] /\ callBuf[s] > 0}
     IN /\ callRet = NULL <=> free = {}
        /\ callRet # NULL
           => /\ callRet \in free
              /\ \A t \in free :
                   \/ callBuf[t] < callBuf[callRet]
                   \/ callBuf[t] = callBuf[callRet] /\ callRet <= t

\* C15 witness: the visible satellite with the largest buffer was occupied
\* and the sticky policy returned the earlier of two satellites with equal
\* buffers.
C15_Witness ==
  /\ policy = "sticky"
  /\ callGnd # NULL
  /\ callCurrent = NULL
  /\ callRet # NULL
  /\ \E s \in callVisible : Occupied(callGnd)[s] /\ callBuf[s] > callBuf[callRet]
  /\ \E t \in callVisible :
       t > callRet /\ ~Occupied(callGnd)[t] /\ callBuf[t] = callBuf[callRet]

\* C16 (shortest-job selection): on a fresh selection (currentSat null or out
\* of view) the sjf policy and the srtf policy return the visible satellite
\* with the smallest buffer above zero, the earliest in visibleSats order
\* among equals.
C16_ShortestJob ==
  (/\ policy \in {"sjf", "srtf"}
   /\ callGnd # NULL
   /\ (callCurrent = NULL \/ callCurrent \notin callVisible))
  => LET withData == {s \in callVisible : callBuf[s] > 0}
     IN withData # {}
        => /\ callRet \in withData
           /\ \A t \in withData :
                \/ callBuf[callRet] < callBuf[t]
                \/ callBuf[callRet] = callBuf[t] /\ callRet <= t

\* C17 (sjf and srtf honor the timer): a decision of the sjf policy or the
\* srtf policy whose currentSat is visible and was selected fewer than 30
\* steps before returns currentSat.
C17_ShortestJobTimer ==
  [][ (/\ policy \in {"sjf", "srtf"}
       /\ callCurrent' # NULL
       /\ callCurrent' \in callVisible'
       /\ callStep' - selectedAt[callGnd'] < 30)
      => callRet' = callCurrent' ]_vars

\* C19 (data-aware selection): under every policy a returned satellite that
\* differs from currentSat has data, and under sticky it is moreover not
\* occupied.
C19_DataAware ==
  (/\ callGnd # NULL
   /\ callRet # NULL
   /\ callRet # callCurrent)
  => /\ callBuf[callRet] > 0
     /\ policy = "sticky" => ~Occupied(callGnd)[callRet]

\* C19 witness: a policy other than sticky replaced its currentSat while a
\* visible satellite earlier in visibleSats had no data.
C19_Witness ==
  /\ policy # "sticky"
  /\ callCurrent # NULL
  /\ callRet # NULL
  /\ callRet # callCurrent
  /\ \E s \in callVisible : s < callRet /\ callBuf[s] = 0

\* C30 as stated: a name outside the listed ones gives no policy object, and
\* no decision is ever made in that run.
C30_UnknownNameIsFatal ==
  (policyName \notin KnownPolicyArguments /\ policyName # NoPolicy)
  => (policy = NoPolicy /\ stepCount = 0 /\ callGnd = NULL)

\* C30 amended: createPolicy returns a StickyPolicy for a name outside the
\* listed ones, and an object of the named class for the listed ones.
C30_UnknownNameIsSticky ==
  policyName # NoPolicy
  => /\ policyName \notin KnownPolicyArguments => policy = "sticky"
     /\ policyName \in {"sticky", "greedy"} => policy = "sticky"
     /\ policyName \in {"sjf", "shortestjobfirst"} => policy = "sjf"
     /\ policyName \in {"srtf", "shortestremainingtime"} => policy = "srtf"
     /\ policyName \in {"fifo", "roundrobin", "random"} => policy = policyName

\* C30 witness: a run started with the name lifo has made a decision under
\* the sticky policy, which kept a satellite.
C30_Witness ==
  /\ policyName = "lifo"
  /\ policy = "sticky"
  /\ stepCount >= 2
  /\ callRet # NULL
  /\ callRet = callCurrent

(***************************************************************************)
(* Observation spacing claims.                                             *)
(***************************************************************************)

\* C20 (orbit-spaced rotation): in orbit-spaced mode the k-th step with
\* distanceKm >= thresholdKm triggers exactly the satellite at index
\* (k - 1) mod N.
C20_OrbitRotation ==
  (spacing = "orbit-spaced" /\ crossedNow)
  => lastTriggered = {(crossings - 1) % numSpaced}

\* C31 (spacing selection): for every name of the command line interface
\* createStrategy returns a strategy of the matching variant (bent-pipe and
\* close-spaced name the same variant) and throws nothing; for every other
\* name it creates no strategy and throws "Unknown spacing strategy: X ...".
C31_SpacingSelection ==
  spacingName # NoStrategy
  => IF spacingName \in KnownStrategyArguments
       THEN /\ spacingError = "none"
            /\ spacingName \in {"bent-pipe", "bentpipe", "close-spaced",
                                 "close", "closed"}
                 => spacing \in {"bent-pipe", "close-spaced"}
            /\ spacingName \in {"frame-spaced", "frame"}
                 => spacing = "frame-spaced"
            /\ spacingName \in {"orbit-spaced", "orbit"}
                 => spacing = "orbit-spaced"
            /\ spacingName = "close-orbit-spaced"
                 => spacing = "close-orbit-spaced"
       ELSE /\ spacing = NoStrategy
            /\ spacingError = spacingName

\* C32 (trigger-time marks captures): an executeObservation call of a
\* strategy logs exactly one trigger-time when it latches at least one
\* sensor and none when it latches no sensor.
C32_TriggerTimeMarksCaptures ==
  lastOp = "executeObservation"
  => eventsEmitted = (IF lastTriggered # {} THEN 1 ELSE 0)

\* C36 (orbit-spaced execute touches one satellite): an executeObservation
\* call of the orbit-spaced strategy latches the sensor of the satellite at
\* index rotationIndex mod N only, writes that satellite's threshold only and
\* adds 1 to rotationIndex; the other two operations leave rotationIndex.
C36_OrbitExecuteOne ==
  [][ (spacing = "orbit-spaced" /\ spacingStep' # spacingStep)
      => /\ lastOp' = "executeObservation"
              => /\ lastTriggered' = {rotationIndex % numSpaced}
                 /\ DOMAIN thresholdsWritten' = {rotationIndex % numSpaced}
                 /\ rotationIndex' = rotationIndex + 1
         /\ lastOp' # "executeObservation"
              => /\ rotationIndex' = rotationIndex
                 /\ lastTriggered' = {} ]_vars

\* C36 witness: the fifth executeObservation call on three satellites has
\* latched the satellite at index 1.
C36_Witness ==
  /\ spacing = "orbit-spaced"
  /\ numSpaced = 3
  /\ lastOp = "executeObservation"
  /\ rotationIndex = 5
  /\ lastTriggered = {1}
  /\ DOMAIN thresholdsWritten = {1}

\* C39 (batched close-spaced covers the constellation): the last 5
\* executeObservation calls of the batched CloseSpacedStrategy together
\* latched every satellite of the constellation exactly once.
C39_BatchesCover ==
  (spacing = "close-spaced-batched" /\ Len(recentTriggered) = 5)
  => \A i \in 0..(numSpaced - 1) :
       Cardinality({k \in 1..5 : i \in recentTriggered[k]}) = 1

\* C33 (sticky avoids collisions): under the sticky policy, with occupied
\* true exactly for the satellites connected to another ground station, no
\* two ground stations are connected to the same satellite.
C33_StickyNoCollision ==
  policy = "sticky"
  => \A g, h \in 1..numGnds :
       (g # h /\ gndId2CurrSat[g] # NULL) => gndId2CurrSat[g] # gndId2CurrSat[h]

\* C33 witness: three ground stations are connected to three satellites, and
\* the last decision kept its satellite while a fuller satellite, held by
\* another ground station, was in view.
C33_Witness ==
  /\ policy = "sticky"
  /\ numGnds = 3
  /\ \A g \in 1..numGnds : gndId2CurrSat[g] # NULL
  /\ callCurrent # NULL
  /\ callRet = callCurrent
  /\ \E s \in callVisible :
       /\ Occupied(callGnd)[s]
       /\ callBuf[s] > callBuf[callRet]

\* C34 (ground stations do not interfere inside a policy): under fifo,
\* roundrobin and random, every call for a ground station returns what an
\* instance that is given only that ground station's calls returns.
C34_NoInterference ==
  (policy \in StatefulPolicies /\ callGnd = ObservedGnd) => callRet = twinRet

\* C35 (frame of update): an update on a sensor whose senseTrigger is false
\* changes none of bitsBuffered, totalBitsLost, prevSensePosn,
\* prevSenseDateTime and senseTrigger and logs no event; an update that
\* consumes a trigger leaves prevSensePosn and prevSenseDateTime at the
\* current position and time, whether or not the capture overflowed.
C35_UpdateFrame ==
  [][ sensorOp' = "update"
      => IF senseTrigger
           THEN /\ prevSensePosn' = eciPosn'
                /\ prevSenseDateTime' = globalTime'
           ELSE UNCHANGED <<bitsBuffered, totalBitsLost, prevSensePosn,
                            prevSenseDateTime, senseTrigger, overflowEvents>> ]_vars

\* C35 witness: the only capture so far overflowed, after the satellite had
\* moved and the clock had advanced, and the reference is the new position
\* and time.
C35_Witness ==
  /\ sensorOp = "update"
  /\ numCaptures = 1
  /\ overflowEvents = 1
  /\ eciPosn # 0
  /\ globalTime > 0
  /\ prevSensePosn = eciPosn
  /\ prevSenseDateTime = globalTime

\* C38 (the two completion-driven forms of FIFOPolicy are interchangeable):
\* given the same calls, the form with a queue and a tracking set and the
\* form with a deque return the same satellite at every call.
C38_FIFOFormsAgree ==
  (policy = "fifo" /\ callGnd # NULL) => twinRet = callRet

\* C37 (re-phasing is one-shot): every initialize call leaves the rephased
\* flag set, and an initialize call that finds it set changes no local
\* clock, whatever the clocks hold.
C37_RephaseOnce ==
  [][ (spacing = "close-orbit-spaced" /\ lastOp' = "initialize")
      => /\ rephased'
         /\ rephased => localTime' = localTime ]_vars

\* C37 witness: after the re-phasing of six satellites the clocks of the
\* first cluster ran apart, and a later initialize call left them so.
C37_Witness ==
  /\ spacing = "close-orbit-spaced"
  /\ numSpaced = 6
  /\ rephased
  /\ lastOp = "initialize"
  /\ localTime[1] # localTime[0]
  /\ localTime[5] # AdvanceBySeconds(localTime[4], InterDtSec)

\* C21 (P9 Frame-spaced cadence): in frame-spaced mode with N satellites,
\* the executeObservation calls whose number is a multiple of N, and only
\* those, latch the trigger of all N sensors, log one trigger-time and leave
\* frameCount at 0; every other call latches no sensor and logs nothing.
C21_FrameCadence ==
  (spacing = "frame-spaced" /\ lastOp = "executeObservation")
  => IF executeCalls % numSpaced = 0
       THEN /\ lastTriggered = 0..(numSpaced - 1)
            /\ eventsEmitted = 1
            /\ frameCount = 0
       ELSE /\ lastTriggered = {}
            /\ eventsEmitted = 0

\* C21 witness: in a constellation of three, the sixth executeObservation
\* call has just latched all three sensors.
C21_Witness ==
  /\ spacing = "frame-spaced"
  /\ numSpaced = 3
  /\ lastOp = "executeObservation"
  /\ executeCalls = 6
  /\ lastTriggered = {0, 1, 2}
  /\ eventsEmitted = 1

\* C22 as stated: in frame-spaced mode every updateFrameState call of a step
\* whose shouldTriggerObservation returned false sets the lead sensor's
\* prevSensePosn and prevSenseDateTime, and no other sensor's.
C22_RefreshOnEveryQuietStep ==
  (spacing = "frame-spaced" /\ lastOp = "updateFrameState" /\ ~lastShould)
  => referenceSet = {LeadIndex}

\* C22 amended: such a call sets the lead sensor's reference exactly when an
\* executeObservation call has been made and frameCount is not a multiple of
\* the constellation size; otherwise it sets none; it never sets another
\* sensor's reference, latches no sensor and writes no threshold.
C22_RefreshInsideFrame ==
  (spacing = "frame-spaced" /\ lastOp = "updateFrameState" /\ ~lastShould)
  => /\ referenceSet = IF executeCalls > 0 /\ frameCount % numSpaced # 0
                         THEN {LeadIndex} ELSE {}
     /\ lastTriggered = {}
     /\ thresholdsWritten = NoWrites

\* C22 witness: inside a frame the distance fell below the threshold and
\* updateFrameState moved the lead's reference.
C22_Witness ==
  /\ spacing = "frame-spaced"
  /\ lastOp = "updateFrameState"
  /\ ~lastShould
  /\ frameCount > 0
  /\ referenceSet = {LeadIndex}
  /\ leadDistance = 0

\* C23 (bent-pipe and close-spaced, simultaneous form): shouldTriggerObservation
\* returns true exactly when distanceKm >= thresholdKm; an executeObservation
\* call latches every satellite's sensor, writes every satellite's threshold
\* and logs one trigger-time; updateFrameState latches no sensor, writes no
\* threshold and moves no reference.
C23_Simultaneous ==
  (spacing \in {"bent-pipe", "close-spaced"} /\ lastOp # "none")
  => /\ lastShould = crossedNow
     /\ lastOp = "executeObservation"
          => /\ lastTriggered = 0..(numSpaced - 1)
             /\ DOMAIN thresholdsWritten = 0..(numSpaced - 1)
             /\ thresholdKm = thresholdsWritten[LeadIndex]
             /\ eventsEmitted = 1
     /\ lastOp = "updateFrameState"
          => /\ lastTriggered = {}
             /\ thresholdsWritten = NoWrites
             /\ referenceSet = {}
             /\ eventsEmitted = 0

\* C23 witness: under bent-pipe a step at exactly the threshold latched all
\* three sensors, after an earlier step that called updateFrameState.
C23_Witness ==
  /\ spacing = "bent-pipe"
  /\ numSpaced = 3
  /\ spacingStep >= 2
  /\ executeCalls = 1
  /\ lastOp = "executeObservation"
  /\ lastTriggered = {0, 1, 2}
  /\ crossedNow

\* C24 (cluster re-phasing offsets): after initialize has re-phased N >= 2
\* satellites with the default parameters, every satellite i in 1..N-1 has
\* the local clock of satellite i-1 advanced by 540 seconds when i is a
\* multiple of 5 and by 0 seconds otherwise.
C24_RephaseOffsets ==
  (spacing = "close-orbit-spaced" /\ rephased /\ numSpaced >= 2)
  => \A i \in 1..(numSpaced - 1) :
       localTime[i] = localTime[i - 1]
                      + (IF i % ClusterSize = 0 THEN InterDtSec ELSE IntraDtSec)

\* C25 (close-orbit-spaced behaves like bent-pipe): after any sequence of
\* calls, the CloseOrbitSpacedStrategy and the BentPipeStrategy given the
\* same calls have returned the same shouldTriggerObservation result,
\* latched the same sensors, written the same thresholds, logged the same
\* trigger-time events and moved the same references.
C25_LikeBentPipe ==
  spacing = "close-orbit-spaced"
  => /\ lastShould = twinShould
     /\ lastTriggered = twinTriggered
     /\ thresholdsWritten = twinThresholds
     /\ eventsEmitted = twinEvents
     /\ referenceSet = twinReferenceSet

\* C25 witness: after the re-phasing of six satellites and a
\* shouldTriggerObservation call at the threshold that returned true, an
\* executeObservation call latched all six sensors in both strategies.
C25_Witness ==
  /\ spacing = "close-orbit-spaced"
  /\ numSpaced = 6
  /\ rephased
  /\ lastShould
  /\ twinShould
  /\ lastOp = "executeObservation"
  /\ lastTriggered = 0..5
  /\ twinTriggered = 0..5
  /\ DOMAIN twinThresholds = 0..5

(***************************************************************************)
(* Sensor claims.                                                          *)
(***************************************************************************)

\* C1 as stated (P1 Conservation): in every reachable state the buffered bits,
\* the lost bits and the bits returned by drainBuffer add up to the bits
\* sensed by the updates that consumed a latched trigger.
C1_ConservationAsStated ==
  bitsBuffered + totalBitsLost + sumDrained = sumSensed

\* C1 amended: as long as no unsigned addition of update has wrapped, the
\* buffered, lost and drained bits add up to the bits sensed plus, for every
\* overflowing update, the difference between the capacity and the buffer
\* level that update found (an overflowing update fills the buffer to the
\* capacity and also counts the whole capture as lost).
C1_ConservationWithExcess ==
  ~wrapped => bitsBuffered + totalBitsLost + sumDrained = sumSensed + sumExcess

\* C1 witness: an overflow that found the buffer below capacity has happened,
\* bits were drained, and nothing wrapped.
C1_Witness ==
  /\ ~wrapped
  /\ overflowEvents > 0
  /\ sumExcess > 0
  /\ sumDrained > 0
  /\ numCaptures >= 2

\* C2 (P2 Cap): when the capacity was not changed after the first capture,
\* bitsBuffered <= maxBufferCapacity in every reachable state.
C2_Cap ==
  ~capSetLate => bitsBuffered <= maxBufferCapacity

\* C2 witness: a capacity below the default was configured before the first
\* capture and an overflowing update has filled the buffer up to it.
C2_Witness ==
  /\ ~capSetLate
  /\ maxBufferCapacity < MaxWord
  /\ overflowEvents > 0
  /\ sensorOp = "update"
  /\ bitsBuffered = maxBufferCapacity

\* C3 (overflow accounting): an update that consumes a latched trigger with
\* bitsBuffered + bitsPerSense representable either finds the sum strictly
\* above the capacity, and then sets bitsBuffered to the capacity, adds
\* bitsPerSense to totalBitsLost and logs one overflow measurement, or finds it
\* at or below the capacity, and then stores the sum, leaves totalBitsLost
\* alone and logs nothing.
C3_OverflowAccounting ==
  [][ (/\ sensorOp' = "update"
       /\ senseTrigger
       /\ bitsBuffered + bitsPerSense <= MaxWord)
      => IF bitsBuffered + bitsPerSense > maxBufferCapacity
           THEN /\ bitsBuffered' = maxBufferCapacity
                /\ totalBitsLost' = (totalBitsLost + bitsPerSense) % (MaxWord + 1)
                /\ overflowEvents' = overflowEvents + 1
           ELSE /\ bitsBuffered' = bitsBuffered + bitsPerSense
                /\ totalBitsLost' = totalBitsLost
                /\ overflowEvents' = overflowEvents ]_vars

\* C3 witness: after one capture that fitted, a second capture overflowed: the
\* buffer is at a capacity below the default and exactly one capture is lost.
C3_Witness ==
  /\ sensorOp = "update"
  /\ ~wrapped /\ ~capSetLate
  /\ numCaptures = 2
  /\ overflowEvents = 1
  /\ bitsPerSense > 0
  /\ totalBitsLost = bitsPerSense
  /\ bitsBuffered = maxBufferCapacity
  /\ sumSensed > maxBufferCapacity

\* C4 (drainBuffer): a drainBuffer(bits) call returns min(bits, bitsBuffered),
\* lowers bitsBuffered by exactly the returned amount, never below zero, and
\* changes neither totalBitsLost nor senseTrigger.
C4_Drain ==
  [][ sensorOp' = "drainBuffer"
      => /\ sensorRet' = (IF sensorArg' < bitsBuffered THEN sensorArg' ELSE bitsBuffered)
         /\ bitsBuffered' = bitsBuffered - sensorRet'
         /\ bitsBuffered' >= 0
         /\ totalBitsLost' = totalBitsLost
         /\ senseTrigger' = senseTrigger ]_vars

\* C4 witness: a drain request larger than the non-empty buffer returned what
\* the buffer held and left it empty.
C4_Witness ==
  /\ sensorOp = "drainBuffer"
  /\ sensorRet > 0
  /\ sensorArg > sensorRet
  /\ bitsBuffered = 0

\* C26 as stated: bitsBuffered + totalBitsLost never decreases from one step
\* to the next, under any sequence of triggerSense, update and drainBuffer
\* calls on a sensor configured before its first capture.
C26_SumNeverDecreases ==
  [][ (sensorOp' \in {"triggerSense", "update", "drainBuffer"} /\ ~capSetLate')
      => bitsBuffered' + totalBitsLost' >= bitsBuffered + totalBitsLost ]_vars

\* C26 amended: on such a sensor triggerSense leaves bitsBuffered +
\* totalBitsLost unchanged, drainBuffer lowers it by exactly the value it
\* returns, and an update lowers it only when one of its unsigned additions
\* wraps.
C26_SumLoweredOnlyByDrain ==
  [][ ~capSetLate'
      => /\ sensorOp' = "triggerSense"
              => bitsBuffered' + totalBitsLost' = bitsBuffered + totalBitsLost
         /\ sensorOp' = "drainBuffer"
              => bitsBuffered' + totalBitsLost'
                 = bitsBuffered + totalBitsLost - sensorRet'
         /\ (/\ sensorOp' = "update"
             /\ bitsBuffered' + totalBitsLost' < bitsBuffered + totalBitsLost)
              => /\ senseTrigger
                 /\ \/ bitsBuffered + bitsPerSense > MaxWord
                    \/ totalBitsLost + bitsPerSense > MaxWord ]_vars

\* C26 witness: after an overflow, with nothing wrapped, a drainBuffer call
\* has taken bits out of the buffer.
C26_Witness ==
  /\ ~capSetLate /\ ~wrapped
  /\ overflowEvents > 0
  /\ totalBitsLost > 0
  /\ sensorOp = "drainBuffer"
  /\ sensorRet > 0
  /\ bitsBuffered > 0

\* C27 (P3 Monotone loss): totalBitsLost never decreases, and it changes only
\* in an update that consumes a latched trigger and finds newTotal above the
\* capacity.
C27_MonotoneLoss ==
  [][ /\ totalBitsLost' >= totalBitsLost
      /\ totalBitsLost' # totalBitsLost
           => (sensorOp' = "update" /\ senseTrigger /\ Overflows) ]_vars

\* C28 (trigger latch): an update that finds the trigger latched makes one
\* capture attempt (the buffer takes newTotal, or the capacity with
\* bitsPerSense counted lost once) and clears the latch, however many
\* triggerSense calls came before it; a triggerSense call on a latched sensor
\* changes nothing; an update that finds no latch captures nothing.
C28_TriggerLatch ==
  [][ /\ (sensorOp' = "triggerSense" /\ senseTrigger)
           => UNCHANGED <<senseTrigger, bitsBuffered, bitsPerSense,
                          maxBufferCapacity, totalBitsLost, numCaptures>>
      /\ sensorOp' = "triggerSense" => senseTrigger'
      /\ (sensorOp' = "update" /\ senseTrigger)
           => /\ ~senseTrigger'
              /\ numCaptures' = numCaptures + 1
              /\ \/ /\ bitsBuffered' = NewTotal
                    /\ totalBitsLost' = totalBitsLost
                 \/ /\ bitsBuffered' = maxBufferCapacity
                    /\ totalBitsLost' = WrapWord(totalBitsLost + bitsPerSense)
      /\ (sensorOp' = "update" /\ ~senseTrigger)
           => UNCHANGED <<senseTrigger, bitsBuffered, totalBitsLost,
                          numCaptures>> ]_vars

\* C28 witness: two triggerSense calls were followed by an update, which
\* captured once.
C28_Witness ==
  /\ sensorOp = "update"
  /\ relatched
  /\ ~senseTrigger
  /\ numCaptures = 1
  /\ bitsPerSense > 0
  /\ bitsBuffered = bitsPerSense
  /\ totalBitsLost = 0

\* C29 (arithmetic saturation): an update whose bitsBuffered + bitsPerSense
\* exceeds the largest value of the counter sets bitsBuffered to the capacity,
\* adds bitsPerSense to totalBitsLost and logs the overflow; on a sensor
\* configured before its first capture no update lowers bitsBuffered.
C29_SaturationIsOverflow ==
  [][ sensorOp' = "update"
      => /\ (senseTrigger /\ bitsBuffered + bitsPerSense > MaxWord)
              => /\ bitsBuffered' = maxBufferCapacity
                 /\ totalBitsLost' = WrapWord(totalBitsLost + bitsPerSense)
                 /\ overflowEvents' = overflowEvents + 1
         /\ ~capSetLate => bitsBuffered' >= bitsBuffered ]_vars

====
